---- MODULE Spec2Model ----
(***************************************************************************)
(* The crawl engine of concurrent-web-crawler (src/crawler.rs): the        *)
(* dispatch loop of Crawler::crawl, the worker tasks it spawns, the shared *)
(* stores behind their mutexes, the bounded mpsc channel and the permit    *)
(* semaphore.                                                              *)
(*                                                                         *)
(* A URL string is a sequence of tokens whose concatenation is the string: *)
(* <<"http://", "t", "/", "a">> is "http://t/a".  The first token is the   *)
(* scheme with its "://", the second the host, the rest the path, query    *)
(* and fragment.                                                           *)
(***************************************************************************)
EXTENDS Integers, Sequences, FiniteSets, TLC

---------------------------------------------------------------------------
(* Bounds of the model.                                                    *)

\* concurrent_tasks is drawn from 1..MaxTasks
MaxTasks == 2
\* max_depth is drawn from 0..MaxDepth
MaxDepth == 3
\* max_total_urls is drawn from None and 1..MaxTotal
MaxTotal == 3
\* max_urls_per_domain is drawn from None and 1..MaxPerDomain
MaxPerDomain == 1
\* the worker tasks the liveness properties range over
MaxWorkers == 4
\* capacity of the mpsc channel (mpsc::channel(100) in the source, scaled
\* down so that a send can find the channel full)
ChannelCap == 1
\* the clock (in poll intervals of 100 ms) saturates at MaxClock
MaxClock == 3
\* a path or a robots.txt pattern handed to a function on its own has up
\* to MaxPath tokens
MaxPath == 3
\* a robots.txt record handed to check_path_allowed on its own has up to
\* MaxRules disallow patterns
MaxRules == 2

---------------------------------------------------------------------------
(* URL strings                                                             *)

HTTP == "http://"

\* Option<T>: None is the empty set, Some(v) is {v}
None == {}

Some(v) == {v}

Min(a, b) == IF a < b THEN a ELSE b

Last(s) == s[Len(s)]

Front(s) == SubSeq(s, 1, Len(s) - 1)

\* index of the first occurrence of token c in s, Len(s)+1 when there is none
RECURSIVE IndexFrom(_, _, _)
IndexFrom(s, c, i) ==
    IF i > Len(s) THEN Len(s) + 1
    ELSE IF s[i] = c THEN i ELSE IndexFrom(s, c, i + 1)

\* the url crate lowercases the host of a parsed URL
LowerHost(h) == IF h = "T" THEN "t" ELSE IF h = "U" THEN "u" ELSE h

\* Url::parse(s) followed by to_string(): host in lower case, and an empty
\* path of an http(s) URL becomes "/"
ParseUrl(s) ==
    LET head == <<s[1], LowerHost(s[2])>>
        rest == SubSeq(s, 3, Len(s))
    IN  IF rest = <<>> \/ rest[1] # "/" THEN head \o <<"/">> \o rest
        ELSE head \o rest

\* Url::host_str of a parsed URL
HostStr(u) == u[2]

\* Crawler::extract_domain: parse, then host_str
extract_domain(s) == HostStr(ParseUrl(s))

\* Url::set_fragment(None)
DropFragment(u) == SubSeq(u, 1, IndexFrom(u, "#", 1) - 1)

\* the trailing slash kept
NormalizeKeepSlash(u) == DropFragment(u)

\* Crawler::normalize_url, on a parsed URL
normalize_url(u) ==
    LET url_str == DropFragment(u)
    IN  IF Last(url_str) = "/" THEN Front(url_str) ELSE url_str

\* Url::join of a parsed base and an href: an absolute URL is parsed on its
\* own, a path starting with "/" replaces the base's path
JoinUrl(base, href) ==
    IF href[1] = "/" THEN <<base[1], base[2]>> \o href
    ELSE ParseUrl(href)

IsHttp(u) == u[1] \in {"http://", "https://"}

\* the link loop of Crawler::extract_links_and_title
RECURSIVE ExtractFrom(_, _)
ExtractFrom(base, hrefs) ==
    IF hrefs = <<>> THEN <<>>
    ELSE LET absolute_url == JoinUrl(base, Head(hrefs))
             rest == ExtractFrom(base, Tail(hrefs))
         IN  IF IsHttp(absolute_url)
             THEN <<normalize_url(absolute_url)>> \o rest
             ELSE rest

extract_links(base_url_str, hrefs) == ExtractFrom(ParseUrl(base_url_str), hrefs)

---------------------------------------------------------------------------
(* The web the crawler runs against: what the server answers to a GET of a *)
(* parsed URL.  kind is "html" (2xx, text/html), "nonhtml" (2xx, another   *)
(* content type), "status" (a non-2xx status), "error" (the request       *)
(* fails) or "body_error" (the headers of an HTML page arrive and the read *)
(* of the body fails).                                                     *)

Html(hrefs) == [kind |-> "html", status |-> 200, hrefs |-> hrefs]

NonHtml == [kind |-> "nonhtml", status |-> 200, hrefs |-> <<>>]

HttpStatus(code) == [kind |-> "status", status |-> code, hrefs |-> <<>>]

TransportError == [kind |-> "error", status |-> 0, hrefs |-> <<>>]

BodyError == [kind |-> "body_error", status |-> 200, hrefs |-> <<>>]

\* "mixed": the seed links to /a twice (as /a and /a/), to another host
\* and to /b; /a links back to the seed and to /b and /c; the request of
\* /b fails, the body of /c cannot be read.
\* "s1": the seed links to /a, which answers 404.
\* "robots": the seed links to two pages of another host, /x and /y.
\* "down": every page answers 404.
\* "s4": the seed links to one page three times, as http://T/A#frag, as
\* http://t/a/ and as http://t/a.
\* "s5": the seed links to /a and /a links back to the seed.
\* "s6": the seed links to a page of another host, to /a and to /b; /a
\* links to the other host and back to the seed; the page of the other
\* host links to the seed.
\* "s7": the seed links to /a and to /b, and /a links to /b.
\* "errs": the seed links to /a and /b; the request of /a fails; /b links
\* to /c, whose body cannot be read; robots.txt cannot be had.
Site(w, req) ==
    CASE w = "mixed" /\ req = <<HTTP, "t", "/">> ->
            Html(<< <<"/", "a">>, <<"/", "a", "/">>, <<HTTP, "U", "/">>,
                    <<"mailto:", "x">>, <<"/", "b">> >>)
      [] w = "mixed" /\ req = <<HTTP, "t", "/", "a">> ->
            Html(<< <<"/">>, <<"/", "b">>, <<"/", "c">> >>)
      [] w = "mixed" /\ req = <<HTTP, "t", "/", "b">> -> TransportError
      [] w = "mixed" /\ req = <<HTTP, "t", "/", "c">> -> BodyError
      [] w = "mixed" /\ req = <<HTTP, "u", "/">> -> NonHtml
      [] w = "s1" /\ req = <<HTTP, "t", "/">> -> Html(<< <<"/", "a">> >>)
      [] w = "robots" /\ req = <<HTTP, "t", "/">> ->
            Html(<< <<HTTP, "u", "/", "x">>, <<HTTP, "u", "/", "y">> >>)
      [] w = "s4" /\ req = <<HTTP, "t", "/">> ->
            Html(<< <<HTTP, "T", "/", "A", "#", "frag">>,
                    <<HTTP, "t", "/", "a", "/">>, <<HTTP, "t", "/", "a">> >>)
      [] w = "s5" /\ req = <<HTTP, "t", "/">> -> Html(<< <<"/", "a">> >>)
      [] w = "s5" /\ req = <<HTTP, "t", "/", "a">> -> Html(<< <<"/">> >>)
      [] w = "s6" /\ req = <<HTTP, "t", "/">> ->
            Html(<< <<HTTP, "u", "/">>, <<"/", "a">>, <<"/", "b">> >>)
      [] w = "s6" /\ req = <<HTTP, "t", "/", "a">> ->
            Html(<< <<HTTP, "u", "/">>, <<"/">> >>)
      [] w = "s6" /\ req = <<HTTP, "t", "/", "b">> -> Html(<<>>)
      [] w = "s6" /\ req = <<HTTP, "u", "/">> ->
            Html(<< <<HTTP, "t", "/">> >>)
      [] w = "s7" /\ req = <<HTTP, "t", "/">> ->
            Html(<< <<"/", "a">>, <<"/", "b">> >>)
      [] w = "s7" /\ req = <<HTTP, "t", "/", "a">> ->
            Html(<< <<"/", "b">> >>)
      [] w = "s7" /\ req = <<HTTP, "t", "/", "b">> -> Html(<<>>)
      [] w = "errs" /\ req = <<HTTP, "t", "/">> ->
            Html(<< <<"/", "a">>, <<"/", "b">> >>)
      [] w = "errs" /\ req = <<HTTP, "t", "/", "a">> -> TransportError
      [] w = "errs" /\ req = <<HTTP, "t", "/", "b">> ->
            Html(<< <<"/", "c">> >>)
      [] w = "errs" /\ req = <<HTTP, "t", "/", "c">> -> BodyError
      [] OTHER -> HttpStatus(404)

\* what the server answers to a GET of origin/robots.txt: the lines of the
\* file as key and value, or a non-2xx status, or a failed request, or a
\* body that cannot be read
RobotsFile(lines) == [kind |-> "ok", lines |-> lines]

RobotsMissing == [kind |-> "status", lines |-> <<>>]

RobotsUnreachable == [kind |-> "error", lines |-> <<>>]

RobotsUnreadable == [kind |-> "body_error", lines |-> <<>>]

\* config.user_agent
BOT == "RustCrawler"

RobotsTxt(w, origin) ==
    CASE w = "mixed" /\ origin = <<HTTP, "t">> ->
            RobotsFile(<< <<"user-agent", "*">>,
                          <<"disallow", <<"/", "b">> >>,
                          <<"crawl-delay", 2>> >>)
      [] w = "mixed" /\ origin = <<HTTP, "u">> -> RobotsUnreachable
      [] w = "robots" /\ origin = <<HTTP, "t">> -> RobotsUnreadable
      [] w \in {"down", "errs"} -> RobotsUnreachable
      [] w = "robots" /\ origin = <<HTTP, "u">> ->
            RobotsFile(<< <<"user-agent", "*">>,
                          <<"disallow", <<"/", "x">> >>,
                          <<"user-agent", BOT>>,
                          <<"disallow", <<"/", "y">> >> >>)
      [] OTHER -> RobotsMissing

\* the seed URLs crawl is started with
Seeds == {<<HTTP, "t", "/">>, <<HTTP, "t">>}

---------------------------------------------------------------------------
(* State                                                                   *)

VARIABLES
    web,              \* which web the crawler runs against
    config,           \* CrawlerConfig, fixed at construction
    seed,             \* start_url
    visited,          \* Crawler.visited: set of URL strings
    graph,            \* Crawler.graph: URL string -> sequence of URL strings
    pages,            \* Crawler.pages: sequence of Page records
    stats,            \* Crawler.stats: success_count, error_count
    domain_counters,  \* Crawler.domain_counters: host -> count
    robots_cache,     \* RobotsChecker.cache: origin -> RobotsData
    permits,          \* available permits of Crawler.limiter
    channel,          \* Pages queued in the mpsc channel (tx, rx)
    closed,           \* rx was dropped: crawl returned
    workers,          \* every task spawned so far, in spawn order
    handles,          \* the dispatcher's handles: indices into workers
    dpc,              \* where the crawl future stands
    cur,              \* the Page the dispatch loop is admitting
    exit_reason,      \* which break left the dispatch loop
    result,           \* the CrawlResult returned
    now,              \* poll intervals since crawl started, under ClockSpec
    elapsed,          \* poll intervals since the current select! started
    admitted,         \* history: how often an insert added each URL to visited
    sent,             \* history: how often each URL was sent to the channel
    graph_writes,     \* history: how often each Graph key was written
    discarded,        \* history: URLs the depth check discarded
    robots_fetches,   \* history: how often each origin's robots.txt was
                      \* fetched and its record inserted into the cache
    input,            \* the arguments of a function called on its own
    output,           \* what the function returned
    lpc,              \* under LockSpec: each task's place in its lock program
    held              \* under LockSpec: the lock guards each task holds

vars == <<web, config, seed, visited, graph, pages, stats, domain_counters,
          robots_cache, robots_fetches, permits, channel, closed, workers,
          handles, dpc, cur, exit_reason,
          result, now, elapsed, admitted, sent, graph_writes, discarded,
          input, output, lpc, held>>

\* the poll timeout of the dispatch loop, the unit of the clock
PollTimeout == 1

BagAdd(b, u) ==
    IF u \in DOMAIN b THEN [b EXCEPT ![u] = @ + 1] ELSE (u :> 1) @@ b

BagCount(b, u) == IF u \in DOMAIN b THEN b[u] ELSE 0

\* Page::new
NewPage(url, depth) == [url |-> url, depth |-> depth]

NoPage == NewPage(<<>>, 0)

\* CrawlerConfig::default().max_depth
DefaultDepth == 2

OptionOf(S) == {None} \cup {Some(v) : v \in S}

ConfigsWith(depths, tasks, timeouts, robots) ==
    [max_depth : depths,
     concurrent_tasks : tasks,
     crawl_timeout : timeouts,
     max_urls_per_domain : OptionOf(1..MaxPerDomain),
     max_total_urls : OptionOf(1..MaxTotal),
     respect_robots_txt : robots,
     delay_between_requests : {PollTimeout},
     allowed_domains : {<<>>},
     excluded_paths : {<<>>}]

\* the configurations with at most one of the two caps set
OneCap(configs) ==
    {c \in configs : c.max_urls_per_domain = None \/ c.max_total_urls = None}

\* the configurations crawled, each with at most one cap: up to MaxTasks
\* concurrent tasks at the default depth under the long crawl_timeout, and
\* one task with robots; every depth up to MaxDepth with one task; and two
\* tasks without caps under the crawl_timeout that the deadline can win at
\* any iteration
Configs ==
    OneCap(ConfigsWith({DefaultDepth}, 1..MaxTasks, {PollTimeout + 1},
                       {FALSE}))
    \cup OneCap(ConfigsWith({DefaultDepth}, {1}, {PollTimeout + 1}, {TRUE}))
    \cup OneCap(ConfigsWith(0..MaxDepth, {1}, {PollTimeout, PollTimeout + 1},
                            {FALSE}))
    \cup {c \in ConfigsWith({DefaultDepth}, {Min(2, MaxTasks)}, {PollTimeout},
                             {FALSE}) :
            c.max_urls_per_domain = None /\ c.max_total_urls = None}

\* Crawler::new, then crawl up to the dispatch loop: the seed is marked
\* visited as given and sent to the channel
InitCrawl(webs, configs) ==
    /\ web \in webs
    /\ config \in configs
    /\ seed \in Seeds
    /\ visited = {seed}
    /\ graph = << >>
    /\ pages = << >>
    /\ stats = [success_count |-> 0, error_count |-> 0]
    /\ domain_counters = << >>
    /\ robots_cache = << >>
    /\ robots_fetches = << >>
    /\ permits = config.concurrent_tasks
    /\ channel = <<NewPage(seed, 0)>>
    /\ closed = FALSE
    /\ workers = << >>
    /\ handles = {}
    /\ dpc = "select"
    /\ cur = NoPage
    /\ exit_reason = "none"
    /\ result = [returned |-> FALSE]
    /\ now = 0
    /\ elapsed = 0
    /\ admitted = (seed :> 1)
    /\ sent = (seed :> 1)
    /\ graph_writes = << >>
    /\ discarded = {}

\* no function is called on its own during a crawl
NoCall == [fn |-> "none"]

\* a crawl of one of the webs under one of the configurations
InitWith(webs, configs) ==
    /\ InitCrawl(webs, configs)
    /\ input = NoCall
    /\ output = <<>>
    /\ lpc = <<>>
    /\ held = <<>>

Init == InitWith({"mixed", "s1"}, Configs)

---------------------------------------------------------------------------
(* robots.rs                                                               *)

\* RobotsData
RobotsData(allow, disallow, delay) ==
    [allow_patterns |-> allow, disallow_patterns |-> disallow,
     crawl_delay |-> delay]

\* the record cached when robots.txt cannot be had
Permissive == RobotsData(<<>>, <<>>, None)

\* the line loop of fetch_and_parse_robots: rules of the groups of "*" and
\* of user_agent are collected into one record
RECURSIVE ParseRobots(_, _, _, _)
ParseRobots(lines, user_agent, current_agent, data) ==
    IF lines = <<>> THEN data
    ELSE LET key == Head(lines)[1]
             value == Head(lines)[2]
             applies == current_agent = "*" \/ current_agent = user_agent
             rest == Tail(lines)
         IN  CASE key = "user-agent" ->
                    ParseRobots(rest, user_agent, value, data)
               [] key = "allow" /\ applies ->
                    ParseRobots(rest, user_agent, current_agent,
                        [data EXCEPT !.allow_patterns = Append(@, value)])
               [] key = "disallow" /\ applies /\ value # <<>> ->
                    ParseRobots(rest, user_agent, current_agent,
                        [data EXCEPT !.disallow_patterns = Append(@, value)])
               [] key = "crawl-delay" /\ applies ->
                    ParseRobots(rest, user_agent, current_agent,
                        [data EXCEPT !.crawl_delay = Some(value)])
               [] OTHER ->
                    ParseRobots(rest, user_agent, current_agent, data)

\* RobotsChecker::fetch_and_parse_robots: Err (None) when the request or
\* the body read fails, the permissive record for a non-2xx status, else
\* the parsed rules
fetch_and_parse_robots(response, user_agent) ==
    CASE response.kind \in {"error", "body_error"} -> None
      [] response.kind = "status" -> Some(Permissive)
      [] OTHER ->
            Some(ParseRobots(response.lines, user_agent, "", Permissive))

\* a failed fetch cached as a record that disallows every path
FetchedRobotsStrict(response, user_agent) ==
    LET fetched == fetch_and_parse_robots(response, user_agent)
    IN  IF fetched = None THEN RobotsData(<<>>, << <<"/">> >>, None)
        ELSE CHOOSE data \in fetched : TRUE

\* the match of is_allowed on the fetch: Err gives the permissive record
FetchedRobots(response, user_agent) ==
    LET fetched == fetch_and_parse_robots(response, user_agent)
    IN  IF fetched = None THEN Permissive
        ELSE CHOOSE data \in fetched : TRUE

\* str::starts_with
StartsWith(s, prefix) ==
    Len(prefix) <= Len(s) /\ SubSeq(s, 1, Len(prefix)) = prefix

\* the first disallow pattern that is a prefix of path decides
RECURSIVE CheckFrom(_, _, _)
CheckFrom(disallow, allow, path) ==
    IF disallow = <<>> THEN TRUE
    ELSE LET pattern == Head(disallow)
         IN  IF StartsWith(path, pattern)
             THEN \E i \in 1..Len(allow) :
                     /\ StartsWith(path, allow[i])
                     /\ Len(allow[i]) > Len(pattern)
             ELSE CheckFrom(Tail(disallow), allow, path)

\* RobotsChecker::check_path_allowed
check_path_allowed(robots_data, path) ==
    CheckFrom(robots_data.disallow_patterns, robots_data.allow_patterns, path)

\* the cache key of is_allowed: scheme://host
OriginOf(url) == LET u == ParseUrl(url) IN <<u[1], u[2]>>

\* Url::path: up to the query or the fragment
PathOf(url) ==
    LET u == ParseUrl(url)
        stop == Min(IndexFrom(u, "?", 1), IndexFrom(u, "#", 1))
    IN  SubSeq(u, 3, stop - 1)

---------------------------------------------------------------------------
(* Worker tasks: the async block spawned at crawler.rs:164.  pc is the     *)
(* await the task stands at.                                               *)

NewWorker(page) ==
    [url |-> page.url, depth |-> page.depth, pc |-> "acquire",
     status |-> 0, links |-> <<>>, link |-> <<>>, delay |-> 0,
     outcome |-> "none", requests |-> 0]

\* JoinHandle::is_finished
is_finished(h) == workers[h].pc = "done"

\* a task that holds a permit of the limiter
HoldsPermit(w) == workers[w].pc \notin {"acquire", "done"}

\* acquire that returns with no permit left
CanAcquireAlways == TRUE

\* Semaphore::acquire returns when a permit is available
CanAcquire == permits > 0

\* crawler.limiter.acquire().await
Acquire(w) ==
    /\ workers[w].pc = "acquire"
    /\ CanAcquire
    /\ permits' = permits - 1
    /\ workers' = [workers EXCEPT ![w].pc =
                      IF config.respect_robots_txt THEN "robots" ELSE "fetch"]
    /\ UNCHANGED <<lpc, held, input, output, web, config, seed, robots_cache,
                   robots_fetches, visited, graph, pages, stats,
                   domain_counters, channel, closed, handles, dpc, cur,
                   exit_reason, result, now, elapsed, admitted, sent,
                   graph_writes, discarded>>

\* Page::new(..).with_status_code(403): what process_page returns for a URL
\* robots.txt disallows
Disallowed(me) ==
    [me EXCEPT !.pc = "push_page", !.status = 403, !.outcome = "Disallowed"]

\* the answer of robots.txt ignored
AfterRobotsIgnored(me, robots_data) == [me EXCEPT !.pc = "fetch"]

\* the end of is_allowed and should_crawl_url, on the record to go by
AfterRobots(me, robots_data) ==
    IF check_path_allowed(robots_data, PathOf(me.url))
    THEN [me EXCEPT !.pc = "fetch"]
    ELSE Disallowed(me)

\* is_allowed up to the cache lookup under the read lock
RobotsLookup(w) ==
    /\ workers[w].pc = "robots"
    /\ LET me == workers[w]
           domain == OriginOf(me.url)
       IN  workers' = [workers EXCEPT ![w] =
              IF domain \in DOMAIN robots_cache
              THEN AfterRobots(me, robots_cache[domain])
              ELSE [me EXCEPT !.pc = "robots_fetch"]]
    /\ UNCHANGED <<lpc, held, input, output, web, config, seed, robots_cache,
                   robots_fetches, visited, graph, pages, stats,
                   domain_counters, permits, channel, closed, handles, dpc,
                   cur, exit_reason, result, now, elapsed, admitted, sent,
                   graph_writes, discarded>>

\* is_allowed after a cache miss: robots.txt is fetched and parsed, and the
\* record is inserted under the write lock
RobotsFetch(w) ==
    /\ workers[w].pc = "robots_fetch"
    /\ LET me == workers[w]
           domain == OriginOf(me.url)
           robots_data == FetchedRobots(RobotsTxt(web, domain), BOT)
       IN  /\ robots_cache' = (domain :> robots_data) @@ robots_cache
           /\ robots_fetches' = BagAdd(robots_fetches, domain)
           /\ workers' = [workers EXCEPT ![w] = AfterRobots(me, robots_data)]
    /\ UNCHANGED <<lpc, held, input, output, web, config, seed, visited, graph,
                   pages, stats, domain_counters, permits, channel, closed,
                   handles, dpc, cur, exit_reason, result, now, elapsed,
                   admitted, sent, graph_writes, discarded>>

\* the URL reqwest requests for a URL string: parsed, without its fragment
RequestOf(url) == DropFragment(ParseUrl(url))

\* a non-2xx status taken for a failed request
AfterResponseStrict(me, response) ==
    CASE response.kind \in {"error", "body_error"} ->
            [me EXCEPT !.pc = "error", !.outcome = "TransportError"]
      [] response.kind = "status" ->
            [me EXCEPT !.pc = "error", !.status = response.status,
                       !.outcome = "HttpError"]
      [] response.kind = "nonhtml" ->
            [me EXCEPT !.pc = "push_page", !.status = response.status,
                       !.outcome = "NonHtml"]
      [] OTHER ->
            [me EXCEPT !.pc = "sleep", !.status = response.status,
                       !.outcome = "Ok",
                       !.links = extract_links(me.url, response.hrefs)]

\* what process_page makes of the response: Err for a failed request or
\* body read, the Page of a non-2xx status or of non-HTML content, or the
\* links of the HTML page
AfterResponse(me, response) ==
    CASE response.kind \in {"error", "body_error"} ->
            [me EXCEPT !.pc = "error", !.outcome = "TransportError"]
      [] response.kind = "status" ->
            [me EXCEPT !.pc = "push_page", !.status = response.status,
                       !.outcome = "HttpError"]
      [] response.kind = "nonhtml" ->
            [me EXCEPT !.pc = "push_page", !.status = response.status,
                       !.outcome = "NonHtml"]
      [] OTHER ->
            [me EXCEPT !.pc = "sleep", !.status = response.status,
                       !.outcome = "Ok",
                       !.links = extract_links(me.url, response.hrefs)]

\* process_page from the HTTP request to link extraction
Fetch(w) ==
    /\ workers[w].pc = "fetch"
    /\ LET response == Site(web, RequestOf(workers[w].url))
       IN  workers' = [workers EXCEPT ![w] =
              [AfterResponse(@, response) EXCEPT !.requests = @ + 1]]
    /\ UNCHANGED <<lpc, held, input, output, web, config, seed, robots_cache,
                   robots_fetches, visited, graph, pages, stats,
                   domain_counters, permits, channel, closed, handles, dpc,
                   cur, exit_reason, result, now, elapsed, admitted, sent,
                   graph_writes, discarded>>

\* Duration::from_secs_f64: the clock of the model counts intervals of
\* 100 ms, the length of config.delay_between_requests
from_secs_f64(secs) == 10 * secs

\* RobotsChecker::get_crawl_delay
get_crawl_delay(domain) ==
    IF domain \in DOMAIN robots_cache
    THEN {from_secs_f64(d) : d \in robots_cache[domain].crawl_delay}
    ELSE None

\* the larger of the robots.txt delay and the configured delay
ActualDelay(delay) ==
    IF \E d \in delay : d > config.delay_between_requests
    THEN CHOOSE d \in delay : TRUE
    ELSE config.delay_between_requests

\* the polite sleep that ends process_page for an HTML page: the delay is
\* looked up by host
Sleep(w) ==
    /\ workers[w].pc = "sleep"
    /\ workers' = [workers EXCEPT
          ![w].pc = "push_page",
          ![w].delay =
              ActualDelay(get_crawl_delay(<<extract_domain(workers[w].url)>>))]
    /\ UNCHANGED <<lpc, held, input, output, web, config, seed, robots_cache,
                   robots_fetches, visited, graph, pages, stats,
                   domain_counters, permits, channel, closed, handles, dpc,
                   cur, exit_reason, result, now, elapsed, admitted, sent,
                   graph_writes, discarded>>

\* the Page process_page returns
ProcessedPage(me) ==
    [url |-> me.url, depth |-> me.depth, links |-> me.links,
     status_code |-> me.status]

\* a store that puts the newest Page first
PushPageFirst(w) ==
    /\ workers[w].pc = "push_page"
    /\ pages' = <<ProcessedPage(workers[w])>> \o pages
    /\ workers' = [workers EXCEPT ![w].pc = "insert_graph"]
    /\ UNCHANGED <<lpc, held, input, output, web, config, seed, robots_cache,
                   robots_fetches, visited, graph, stats, domain_counters,
                   permits, channel, closed, handles, dpc, cur, exit_reason,
                   result, now, elapsed, admitted, sent, graph_writes,
                   discarded>>

\* pages.push(processed_page)
PushPage(w) ==
    /\ workers[w].pc = "push_page"
    /\ pages' = Append(pages, ProcessedPage(workers[w]))
    /\ workers' = [workers EXCEPT ![w].pc = "insert_graph"]
    /\ UNCHANGED <<lpc, held, input, output, web, config, seed, robots_cache,
                   robots_fetches, visited, graph, stats, domain_counters,
                   permits, channel, closed, handles, dpc, cur, exit_reason,
                   result, now, elapsed, admitted, sent, graph_writes,
                   discarded>>

\* the graph write left out
InsertGraphSkip(w) ==
    /\ workers[w].pc = "insert_graph"
    /\ workers' = [workers EXCEPT ![w].pc = "success"]
    /\ UNCHANGED <<lpc, held, input, output, web, config, seed, robots_cache,
                   robots_fetches, visited, graph, pages, stats,
                   domain_counters, permits, channel, closed, handles, dpc,
                   cur, exit_reason, result, now, elapsed, admitted, sent,
                   graph_writes, discarded>>

\* graph.insert(page_url, links)
InsertGraph(w) ==
    /\ workers[w].pc = "insert_graph"
    /\ graph' = (workers[w].url :> workers[w].links) @@ graph
    /\ graph_writes' = BagAdd(graph_writes, workers[w].url)
    /\ workers' = [workers EXCEPT ![w].pc = "success"]
    /\ UNCHANGED <<lpc, held, input, output, web, config, seed, robots_cache,
                   robots_fetches, visited, pages, stats, domain_counters,
                   permits, channel, closed, handles, dpc, cur, exit_reason,
                   result, now, elapsed, admitted, sent, discarded>>

\* a success that is counted twice
CountSuccessTwice(w) ==
    /\ workers[w].pc = "success"
    /\ stats' = [stats EXCEPT !.success_count = @ + 2]
    /\ workers' = [workers EXCEPT ![w].pc = "links"]
    /\ UNCHANGED <<lpc, held, input, output, web, config, seed, robots_cache,
                   robots_fetches, visited, graph, pages, domain_counters,
                   permits, channel, closed, handles, dpc, cur, exit_reason,
                   result, now, elapsed, admitted, sent, graph_writes,
                   discarded>>

\* stats.success_count += 1
CountSuccess(w) ==
    /\ workers[w].pc = "success"
    /\ stats' = [stats EXCEPT !.success_count = @ + 1]
    /\ workers' = [workers EXCEPT ![w].pc = "links"]
    /\ UNCHANGED <<lpc, held, input, output, web, config, seed, robots_cache,
                   robots_fetches, visited, graph, pages, domain_counters,
                   permits, channel, closed, handles, dpc, cur, exit_reason,
                   result, now, elapsed, admitted, sent, graph_writes,
                   discarded>>

\* an Err of process_page that ends crawl
CountErrorAbort(w) ==
    /\ workers[w].pc = "error"
    /\ stats' = [stats EXCEPT !.error_count = @ + 1]
    /\ workers' = [workers EXCEPT ![w].pc = "done"]
    /\ dpc' = "done"
    /\ UNCHANGED <<lpc, held, input, output, web, config, seed, robots_cache,
                   robots_fetches, visited, graph, pages, domain_counters,
                   permits, channel, closed, handles, cur, exit_reason, result,
                   now, elapsed, admitted, sent, graph_writes, discarded>>

\* stats.error_count += 1, the Err arm
CountError(w) ==
    /\ workers[w].pc = "error"
    /\ stats' = [stats EXCEPT !.error_count = @ + 1]
    /\ workers' = [workers EXCEPT ![w].pc = "links", ![w].links = <<>>]
    /\ UNCHANGED <<lpc, held, input, output, web, config, seed, robots_cache,
                   robots_fetches, visited, graph, pages, domain_counters,
                   permits, channel, closed, handles, dpc, cur, exit_reason,
                   result, now, elapsed, admitted, sent, graph_writes,
                   discarded>>

\* whether p occurs in s as a run of consecutive tokens: str::contains
SeqContains(s, p) ==
    \E i \in 1..(Len(s) - Len(p) + 1) : SubSeq(s, i, i + Len(p) - 1) = p

\* the test left out: every link is queued
ShouldQueueAlways(v, link) == TRUE

\* the test that never admits a link
ShouldQueueNever(v, link) == FALSE

\* the test of the test-and-insert on visited
ShouldQueue(v, link) == link \notin v

\* the domain filter left out
AllowedDomainAlways(link) == TRUE

\* allowed_domain of the link loop
AllowedDomain(link) ==
    IF config.allowed_domains # <<>>
    THEN \E i \in 1..Len(config.allowed_domains) :
            SeqContains(<<extract_domain(link)>>, config.allowed_domains[i])
    ELSE TRUE

\* excluded_path of the link loop
ExcludedPath(link) ==
    IF config.excluded_paths # <<>>
    THEN \E i \in 1..Len(config.excluded_paths) :
            SeqContains(link, config.excluded_paths[i])
    ELSE FALSE

\* one turn of `for link in links` up to the send: the test-and-insert on
\* visited under its lock, then the filters
NextLink(w) ==
    /\ workers[w].pc = "links"
    /\ workers[w].links # <<>>
    /\ LET link == Head(workers[w].links)
           should_queue == ShouldQueue(visited, link)
       IN  /\ visited' = IF should_queue THEN visited \cup {link} ELSE visited
           /\ admitted' = IF should_queue THEN BagAdd(admitted, link)
                           ELSE admitted
           /\ workers' = [workers EXCEPT
                 ![w].links = Tail(@),
                 ![w].pc = IF should_queue /\ AllowedDomain(link)
                              /\ ~ExcludedPath(link)
                           THEN "send" ELSE "links",
                 ![w].link = IF should_queue /\ AllowedDomain(link)
                                /\ ~ExcludedPath(link)
                             THEN link ELSE <<>>]
    /\ UNCHANGED <<lpc, held, input, output, web, config, seed, robots_cache,
                   robots_fetches, graph, pages, stats, domain_counters,
                   permits, channel, closed, handles, dpc, cur, exit_reason,
                   result, now, elapsed, sent, graph_writes, discarded>>

\* a channel without a bound
CanSendAlways == TRUE

\* Sender::send returns once the channel has room
CanSend == Len(channel) < ChannelCap

\* a send that gives the child the depth of its parent
SendSameDepth(w) ==
    /\ workers[w].pc = "send"
    /\ ~closed
    /\ CanSend
    /\ channel' = Append(channel, NewPage(workers[w].link, workers[w].depth))
    /\ sent' = BagAdd(sent, workers[w].link)
    /\ workers' = [workers EXCEPT ![w].pc = "links", ![w].link = <<>>]
    /\ UNCHANGED <<lpc, held, input, output, web, config, seed, robots_cache,
                   robots_fetches, visited, graph, pages, stats,
                   domain_counters, permits, closed, handles, dpc, cur,
                   exit_reason, result, now, elapsed, admitted, graph_writes,
                   discarded>>

\* tx.send(new_page).await with the receiver alive
Send(w) ==
    /\ workers[w].pc = "send"
    /\ ~closed
    /\ CanSend
    /\ channel' = Append(channel,
                         NewPage(workers[w].link, workers[w].depth + 1))
    /\ sent' = BagAdd(sent, workers[w].link)
    /\ workers' = [workers EXCEPT ![w].pc = "links", ![w].link = <<>>]
    /\ UNCHANGED <<lpc, held, input, output, web, config, seed, robots_cache,
                   robots_fetches, visited, graph, pages, stats,
                   domain_counters, permits, closed, handles, dpc, cur,
                   exit_reason, result, now, elapsed, admitted, graph_writes,
                   discarded>>

\* tx.send(new_page).await with the receiver dropped: Err, and the loop breaks
SendClosed(w) ==
    /\ workers[w].pc = "send"
    /\ closed
    /\ workers' = [workers EXCEPT ![w].pc = "links", ![w].link = <<>>,
                                  ![w].links = <<>>]
    /\ UNCHANGED <<lpc, held, input, output, web, config, seed, robots_cache,
                   robots_fetches, visited, graph, pages, stats,
                   domain_counters, permits, channel, closed, handles, dpc,
                   cur, exit_reason, result, now, elapsed, admitted, sent,
                   graph_writes, discarded>>

\* a task that ends without giving its permit back
ExitKeepPermit(w) ==
    /\ workers[w].pc = "links"
    /\ workers[w].links = <<>>
    /\ workers' = [workers EXCEPT ![w].pc = "done"]
    /\ UNCHANGED <<lpc, held, input, output, web, config, seed, robots_cache,
                   robots_fetches, visited, graph, pages, stats,
                   domain_counters, permits, channel, closed, handles, dpc,
                   cur, exit_reason, result, now, elapsed, admitted, sent,
                   graph_writes, discarded>>

\* the end of the task: _permit is dropped and the handle is finished
Exit(w) ==
    /\ workers[w].pc = "links"
    /\ workers[w].links = <<>>
    /\ permits' = permits + 1
    /\ workers' = [workers EXCEPT ![w].pc = "done"]
    /\ UNCHANGED <<lpc, held, input, output, web, config, seed, robots_cache,
                   robots_fetches, visited, graph, pages, stats,
                   domain_counters, channel, closed, handles, dpc, cur,
                   exit_reason, result, now, elapsed, admitted, sent,
                   graph_writes, discarded>>

---------------------------------------------------------------------------
(* The crawl future: the dispatch loop, the drain and the result.          *)

\* a retain that drops nothing
RetainAll(hs) == hs

\* handles.retain(|h| !h.is_finished()), on the workers as they will be
Retain(hs) == {h \in hs : ~is_finished(h)}

\* the depth check off by one
TooDeepStrict(page) == page.depth > config.max_depth

\* the depth check of the dispatch loop
TooDeep(page) == page.depth >= config.max_depth

\* the per-domain check off by one
DomainFullStrict(count, max_per_domain) == count > max_per_domain

\* the per-domain check left out
DomainFullNever(count, max_per_domain) == FALSE

\* the per-domain check: the counter has reached the limit
DomainFull(count, max_per_domain) == count >= max_per_domain

\* the total check left out
TotalReachedNever(visited_count, max_total) == FALSE

\* the total check on the size of visited
TotalReached(visited_count, max_total) == visited_count >= max_total

\* what follows a break out of the dispatch loop
AfterLoop(hs) == IF hs # {} THEN "drain" ELSE "clone_pages"

Break(reason) ==
    /\ exit_reason' = reason
    /\ dpc' = AfterLoop(handles)
    /\ elapsed' = 0

\* Ok(Some(page)): the depth check and the per-domain counter
DispatchRecv ==
    /\ dpc = "select"
    /\ channel # <<>>
    /\ LET page == Head(channel)
           domain == extract_domain(page.url)
           count == BagCount(domain_counters, domain)
       IN  /\ channel' = Tail(channel)
           /\ elapsed' = 0
           /\ IF TooDeep(page)
              THEN /\ discarded' = discarded \cup {page.url}
                   /\ UNCHANGED <<domain_counters, dpc, cur>>
              ELSE /\ UNCHANGED discarded
                   /\ IF config.max_urls_per_domain = None
                      THEN /\ dpc' = "admit"
                           /\ cur' = page
                           /\ UNCHANGED domain_counters
                      ELSE \E max_per_domain \in config.max_urls_per_domain :
                           IF DomainFull(count, max_per_domain)
                           THEN /\ domain_counters' =
                                      (domain :> count) @@ domain_counters
                                /\ UNCHANGED <<dpc, cur>>
                           ELSE /\ domain_counters' =
                                      (domain :> count + 1) @@ domain_counters
                                /\ dpc' = "admit"
                                /\ cur' = page
    /\ UNCHANGED <<lpc, held, input, output, web, config, seed, robots_cache,
                   robots_fetches, visited, graph, pages, stats, permits,
                   closed, workers, handles, exit_reason, result, now,
                   admitted, sent, graph_writes>>

\* the total check breaks out of the loop
DispatchCap ==
    /\ dpc = "admit"
    /\ \E max_total \in config.max_total_urls :
          TotalReached(Cardinality(visited), max_total)
    /\ Break("cap")
    /\ cur' = NoPage
    /\ UNCHANGED <<lpc, held, input, output, web, config, seed, robots_cache,
                   robots_fetches, visited, graph, pages, stats,
                   domain_counters, permits, channel, closed, workers, handles,
                   result, now, admitted, sent, graph_writes, discarded>>

\* the dispatch loop waits for a free permit before it spawns
SpawnNeedsPermit == permits > 0

\* tokio::spawn returns at once: the permit is acquired inside the task
SpawnReady == TRUE

\* tokio::spawn, handles.push(handle) and the retain that follows
DispatchSpawn ==
    /\ dpc = "admit"
    /\ SpawnReady
    /\ \A max_total \in config.max_total_urls :
          ~TotalReached(Cardinality(visited), max_total)
    /\ workers' = Append(workers, NewWorker(cur))
    /\ handles' = Retain(handles) \cup {Len(workers) + 1}
    /\ dpc' = "select"
    /\ cur' = NoPage
    /\ UNCHANGED <<lpc, held, input, output, web, config, seed, robots_cache,
                   robots_fetches, visited, graph, pages, stats,
                   domain_counters, permits, channel, closed, exit_reason,
                   result, now, elapsed, admitted, sent, graph_writes,
                   discarded>>

\* the poll timeout wins although a Page is queued
PollExpiredBlind == elapsed >= PollTimeout

\* the poll of timeout(100 ms, rx.recv()) returns Err: nothing was queued
PollExpired == channel = <<>> /\ elapsed >= PollTimeout

\* Err(_) with no handle left: the idle break
DispatchIdle ==
    /\ dpc = "select"
    /\ PollExpired
    /\ handles = {}
    /\ Break("idle")
    /\ UNCHANGED <<lpc, held, input, output, web, config, seed, robots_cache,
                   robots_fetches, visited, graph, pages, stats,
                   domain_counters, permits, channel, closed, workers, handles,
                   cur, result, now, admitted, sent, graph_writes, discarded>>

\* Err(_) with handles left: reap the finished ones
DispatchReap ==
    /\ dpc = "select"
    /\ PollExpired
    /\ handles # {}
    /\ handles' = Retain(handles)
    /\ elapsed' = 0
    /\ UNCHANGED <<lpc, held, input, output, web, config, seed, robots_cache,
                   robots_fetches, visited, graph, pages, stats,
                   domain_counters, permits, channel, closed, workers, dpc,
                   cur, exit_reason, result, now, admitted, sent, graph_writes,
                   discarded>>

\* the sleep(crawl_timeout) created by this turn of the loop has expired
DeadlineExpired == elapsed >= config.crawl_timeout

\* the second arm of select!
DispatchDeadline ==
    /\ dpc = "select"
    /\ DeadlineExpired
    /\ Break("deadline")
    /\ UNCHANGED <<lpc, held, input, output, web, config, seed, robots_cache,
                   robots_fetches, visited, graph, pages, stats,
                   domain_counters, permits, channel, closed, workers, handles,
                   cur, result, now, admitted, sent, graph_writes, discarded>>

\* a poll interval passes while the loop waits in select!; both timers of
\* the select! are served before the clock moves past them
Tick ==
    /\ dpc = "select"
    /\ elapsed < Min(PollTimeout, config.crawl_timeout)
    /\ elapsed' = elapsed + 1
    /\ UNCHANGED <<lpc, held, input, output, web, config, seed, robots_cache,
                   robots_fetches, visited, graph, pages, stats,
                   domain_counters, permits, channel, closed, workers, handles,
                   dpc, cur, exit_reason, result, now, admitted, sent,
                   graph_writes, discarded>>

\* the same, observed by a clock that started with crawl
ClockTick ==
    /\ dpc = "select"
    /\ elapsed < Min(PollTimeout, config.crawl_timeout)
    /\ elapsed' = elapsed + 1
    /\ now' = Min(now + 1, MaxClock)
    /\ UNCHANGED <<lpc, held, input, output, web, config, seed, robots_cache,
                   robots_fetches, visited, graph, pages, stats,
                   domain_counters, permits, channel, closed, workers, handles,
                   dpc, cur, exit_reason, result, admitted, sent, graph_writes,
                   discarded>>

\* join_all(handles) completes within the 5 s
DrainJoined ==
    /\ dpc = "drain"
    /\ \A h \in handles : is_finished(h)
    /\ dpc' = "clone_pages"
    /\ UNCHANGED <<lpc, held, input, output, web, config, seed, robots_cache,
                   robots_fetches, visited, graph, pages, stats,
                   domain_counters, permits, channel, closed, workers, handles,
                   cur, exit_reason, result, now, elapsed, admitted, sent,
                   graph_writes, discarded>>

\* timeout(5 s, join_all(handles)) returns Err: some task is still running
DrainTimeout ==
    /\ dpc = "drain"
    /\ \E h \in handles : ~is_finished(h)
    /\ dpc' = "clone_pages"
    /\ UNCHANGED <<lpc, held, input, output, web, config, seed, robots_cache,
                   robots_fetches, visited, graph, pages, stats,
                   domain_counters, permits, channel, closed, workers, handles,
                   cur, exit_reason, result, now, elapsed, admitted, sent,
                   graph_writes, discarded>>

\* let pages = self.pages.lock().await.clone()
ClonePages ==
    /\ dpc = "clone_pages"
    /\ result' = [returned |-> FALSE, pages |-> pages]
    /\ dpc' = "clone_graph"
    /\ UNCHANGED <<lpc, held, input, output, web, config, seed, robots_cache,
                   robots_fetches, visited, graph, pages, stats,
                   domain_counters, permits, channel, closed, workers, handles,
                   cur, exit_reason, now, elapsed, admitted, sent,
                   graph_writes, discarded>>

\* let graph = self.graph.lock().await.clone()
CloneGraph ==
    /\ dpc = "clone_graph"
    /\ result' = [returned |-> FALSE, pages |-> result.pages, graph |-> graph]
    /\ dpc' = "clone_stats"
    /\ UNCHANGED <<lpc, held, input, output, web, config, seed, robots_cache,
                   robots_fetches, visited, graph, pages, stats,
                   domain_counters, permits, channel, closed, workers, handles,
                   cur, exit_reason, now, elapsed, admitted, sent,
                   graph_writes, discarded>>

\* let stats = self.stats.lock().await.clone(), and Ok(CrawlResult {..}):
\* crawl returns and rx is dropped
CloneStats ==
    /\ dpc = "clone_stats"
    /\ result' = [returned |-> TRUE, pages |-> result.pages,
                  graph |-> result.graph, stats |-> stats]
    /\ dpc' = "done"
    /\ closed' = TRUE
    /\ UNCHANGED <<lpc, held, input, output, web, config, seed, robots_cache,
                   robots_fetches, visited, graph, pages, stats,
                   domain_counters, permits, channel, workers, handles, cur,
                   exit_reason, now, elapsed, admitted, sent, graph_writes,
                   discarded>>

WorkerStep(w) ==
    \/ Acquire(w)
    \/ RobotsLookup(w)
    \/ RobotsFetch(w)
    \/ Fetch(w)
    \/ Sleep(w)
    \/ PushPage(w)
    \/ InsertGraph(w)
    \/ CountSuccess(w)
    \/ CountError(w)
    \/ NextLink(w)
    \/ Send(w)
    \/ SendClosed(w)
    \/ Exit(w)

Dispatcher ==
    \/ DispatchRecv
    \/ DispatchCap
    \/ DispatchSpawn
    \/ DispatchIdle
    \/ DispatchReap
    \/ DispatchDeadline
    \/ DrainJoined
    \/ DrainTimeout
    \/ ClonePages
    \/ CloneGraph
    \/ CloneStats

Next ==
    \/ Dispatcher
    \/ Tick
    \/ \E w \in 1..Len(workers) : WorkerStep(w)

Spec == Init /\ [][Next]_vars

\* the crawls with respect_robots_txt on and no per-domain limit, of the
\* webs whose robots.txt has two groups or cannot be had
RobotsConfigs ==
    {c \in ConfigsWith({DefaultDepth}, 1..MaxTasks,
                       {PollTimeout, PollTimeout + 1}, {TRUE}) :
        c.max_urls_per_domain = None}

InitRobots == InitWith({"robots", "s1", "down"}, RobotsConfigs)

RobotsSpec == InitRobots /\ [][Next]_vars

\* configurations with the link filters set
Filtered(configs, domains, paths) ==
    {[c EXCEPT !.allowed_domains = d, !.excluded_paths = e] :
        c \in configs, d \in domains, e \in paths}

\* the crawls of the scenario webs: link filters on the web "s6" only,
\* with allowed_domains naming the seed's host or the other one and
\* excluded_paths naming /b, or a per-domain limit in their place; the
\* depths from the default up on "s5"; robots.txt and the short
\* crawl_timeout on "errs"
ScenarioConfigs ==
    Filtered(ConfigsWith(DefaultDepth..MaxDepth, 1..MaxTasks,
                         {PollTimeout, PollTimeout + 1}, {FALSE, TRUE}),
             {<<>>, << <<"t">> >>, << <<"u">> >>}, {<<>>, << <<"b">> >>})

InitScenario ==
    /\ InitWith({"s4", "s5", "s6", "s7", "errs"}, ScenarioConfigs)
    /\ web # "s6" =>
          /\ config.allowed_domains = <<>> /\ config.excluded_paths = <<>>
          /\ config.max_urls_per_domain = None
    /\ config.max_urls_per_domain # None =>
          /\ config.allowed_domains = <<>> /\ config.excluded_paths = <<>>
          /\ config.max_total_urls = None
    /\ web # "s5" => config.max_depth = DefaultDepth
    /\ web # "errs" =>
          /\ ~config.respect_robots_txt
          /\ config.crawl_timeout = PollTimeout + 1
    /\ web \in {"s4", "s5", "s7"} => config.max_total_urls = None

ScenarioSpec == InitScenario /\ [][Next]_vars

\* the crawl of one task under the clock
InitClock ==
    /\ Init
    /\ web = "mixed"
    /\ config.concurrent_tasks = 1
    /\ config.max_depth = DefaultDepth

NextClock ==
    \/ Dispatcher
    \/ ClockTick
    \/ \E w \in 1..Len(workers) : WorkerStep(w)

ClockSpec == InitClock /\ [][NextClock]_vars

\* fair scheduling: the crawl future is polled when it can run, time
\* passes, and the runtime runs some ready worker task
Fairness ==
    /\ WF_vars(Dispatcher)
    /\ WF_vars(Tick)
    /\ WF_vars(\E w \in 1..Len(workers) : WorkerStep(w))

\* the crawls checked for liveness: the seed as served, at the default
\* depth, with one or two concurrent tasks, with and without a total
\* limit; the short crawl_timeout and robots.txt with one task only
InitFair ==
    /\ Init
    /\ web = "mixed"
    /\ config.concurrent_tasks <= 2
    /\ seed = <<HTTP, "t", "/">>
    /\ config.max_depth = DefaultDepth
    /\ config.max_urls_per_domain = None
    /\ config.crawl_timeout = PollTimeout => config.concurrent_tasks = 1
    /\ config.respect_robots_txt => config.concurrent_tasks = 1
    /\ config.max_total_urls \in {None, Some(MaxTotal - 1)}

FairSpec == InitFair /\ [][Next]_vars /\ Fairness

---------------------------------------------------------------------------
(* Functions called on their own: check_path_allowed on a record and a     *)
(* path, normalize_url on a URL and then on the URL its result parses to.  *)
(* output holds what the calls returned, in order.                         *)

\* the sequences over S of length 0..n
RECURSIVE SeqsUpTo(_, _)
SeqsUpTo(S, n) ==
    IF n = 0 THEN {<<>>}
    ELSE LET shorter == SeqsUpTo(S, n - 1)
         IN  shorter \cup {Append(q, x) : q \in shorter, x \in S}

\* URL paths and robots.txt patterns: they start with "/"
Paths == {p \in SeqsUpTo({"/", "a"}, MaxPath) : p # <<>> /\ p[1] = "/"}

\* robots.txt records with up to MaxRules disallow patterns and up to one
\* allow pattern
Records ==
    {RobotsData(allow, disallow, None) :
        allow \in SeqsUpTo(Paths, 1), disallow \in SeqsUpTo(Paths, MaxRules)}

\* http URL strings of one host: nothing, a path, a query or a fragment
\* after the host
Urls ==
    {<<HTTP, "t">> \o rest :
        rest \in {r \in SeqsUpTo({"/", "a", "?", "#"}, MaxPath) :
                     r = <<>> \/ r[1] # "a"}}

Calls ==
    {[fn |-> "check_path_allowed", robots_data |-> r, path |-> p] :
        r \in Records, p \in Paths}
    \cup {[fn |-> "normalize_url", url |-> u] : u \in Urls}

\* the stores of a crawler that crawls nothing, and one call to make
InitCalls ==
    /\ InitCrawl({"down"},
                 ConfigsWith({DefaultDepth}, {1}, {PollTimeout}, {FALSE}))
    /\ config.max_urls_per_domain = None
    /\ config.max_total_urls = None
    /\ seed = <<HTTP, "t">>
    /\ input \in Calls
    /\ output = <<>>
    /\ lpc = <<>>
    /\ held = <<>>

crawl_vars ==
    <<web, config, seed, visited, graph, pages, stats, domain_counters,
      robots_cache, robots_fetches, permits, channel, closed, workers,
      handles, dpc, cur, exit_reason, result, now, elapsed, admitted, sent,
      graph_writes, discarded>>

\* check_path_allowed(robots_data, path)
CallCheckPathAllowed ==
    /\ input.fn = "check_path_allowed"
    /\ output = <<>>
    /\ output' = <<check_path_allowed(input.robots_data, input.path)>>
    /\ UNCHANGED <<lpc, held, input, crawl_vars>>

\* normalize_url(Url::parse(s)), of the URL string given and then of the
\* string the call before returned
CallNormalizeUrl ==
    /\ input.fn = "normalize_url"
    /\ Len(output) < 2
    /\ LET s == IF output = <<>> THEN input.url ELSE Last(output)
       IN  output' = Append(output, normalize_url(ParseUrl(s)))
    /\ UNCHANGED <<lpc, held, input, crawl_vars>>

NextCalls ==
    \/ CallCheckPathAllowed
    \/ CallNormalizeUrl

CallSpec == InitCalls /\ [][NextCalls]_vars

---------------------------------------------------------------------------
(* Locks.  The Mutex of visited, graph, pages, domain_counters and stats   *)
(* and the RwLock of the robots cache, with every guard's scope as the     *)
(* source has it.  A program lists, for one task, its lock acquisitions,   *)
(* the ends of its guards' scopes and its other awaits, in source order;   *)
(* at a branch the program goes on or jumps.                               *)

\* the crawl future is task 0, the worker tasks that hold a permit follow
CrawlTask == 0

LockTasks == 0..MaxTasks

\* a worker that keeps the stats guard while it takes the visited lock
WorkerProgramNested ==
    << <<"io", "acquire">>,
       <<"io", "request">>,
       <<"lock", "pages">>,   <<"unlock", "pages">>,
       <<"lock", "graph">>,   <<"unlock", "graph">>,
       <<"lock", "stats">>,
       <<"lock", "visited">>, <<"unlock", "visited">>,
       <<"io", "send">>,
       <<"unlock", "stats">>,
       <<"end", "task">> >>

\* the task spawned at crawler.rs:164 with process_page and is_allowed
\* inlined
WorkerProgram ==
    << <<"io", "acquire">>,        \*  1  crawler.rs:166
       <<"branch", 9>>,            \*  2  crawler.rs:325, robots not checked
       <<"read", "cache">>,        \*  3  robots.rs:48
       <<"unlock", "cache">>,      \*  4  robots.rs:50-52
       <<"branch", 9>>,            \*  5  robots.rs:49, the record is cached
       <<"io", "robots_fetch">>,   \*  6  robots.rs:56
       <<"write", "cache">>,       \*  7  robots.rs:70
       <<"unlock", "cache">>,      \*  8  robots.rs:72
       <<"branch", 16>>,           \*  9  crawler.rs:326-333, disallowed
       <<"io", "request">>,        \* 10  crawler.rs:337
       <<"branch", 29>>,           \* 11  crawler.rs:337, Err
       <<"branch", 16>>,           \* 12  crawler.rs:342, 361: no delay
       <<"read", "cache">>,        \* 13  robots.rs:175
       <<"unlock", "cache">>,      \* 14  robots.rs:183
       <<"io", "sleep">>,          \* 15  crawler.rs:403, 406
       <<"lock", "pages">>,        \* 16  crawler.rs:176
       <<"unlock", "pages">>,      \* 17  crawler.rs:178
       <<"lock", "graph">>,        \* 18  crawler.rs:182
       <<"unlock", "graph">>,      \* 19  crawler.rs:184
       <<"lock", "stats">>,        \* 20  crawler.rs:188
       <<"unlock", "stats">>,      \* 21  crawler.rs:190
       <<"branch", 31>>,           \* 22  crawler.rs:193, no link is left
       <<"lock", "visited">>,      \* 23  crawler.rs:196
       <<"unlock", "visited">>,    \* 24  crawler.rs:204
       <<"branch", 22>>,           \* 25  crawler.rs:220, the link is skipped
       <<"io", "send">>,           \* 26  crawler.rs:224
       <<"branch", 22>>,           \* 27  crawler.rs:224, sent
       <<"goto", 31>>,             \* 28  crawler.rs:226, break
       <<"lock", "stats">>,        \* 29  crawler.rs:236
       <<"unlock", "stats">>,      \* 30  crawler.rs:238
       <<"end", "task">> >>        \* 31  crawler.rs:241

\* crawl and print_statistics
CrawlProgram ==
    << <<"lock", "stats">>,              \*  1  crawler.rs:98
       <<"unlock", "stats">>,            \*  2  crawler.rs:100
       <<"lock", "visited">>,            \*  3  crawler.rs:110
       <<"unlock", "visited">>,          \*  4  crawler.rs:112
       <<"io", "send">>,                 \*  5  crawler.rs:114
       <<"io", "select">>,               \*  6  crawler.rs:123
       <<"branch", 17>>,                 \*  7  crawler.rs:252, 262, 274
       <<"branch", 6>>,                  \*  8  crawler.rs:132, 256, 266
       <<"branch", 13>>,                 \*  9  crawler.rs:136, no domain cap
       <<"lock", "domain_counters">>,    \* 10  crawler.rs:138
       <<"unlock", "domain_counters">>,  \* 11  crawler.rs:142, 145
       <<"branch", 6>>,                  \* 12  crawler.rs:142, continue
       <<"branch", 6>>,                  \* 13  crawler.rs:148, no total cap
       <<"lock", "visited">>,            \* 14  crawler.rs:149
       <<"unlock", "visited">>,          \* 15  crawler.rs:149
       <<"branch", 6>>,                  \* 16  crawler.rs:164, 243: spawned
       <<"io", "drain">>,                \* 17  crawler.rs:281
       <<"lock", "stats">>,              \* 18  crawler.rs:299
       <<"unlock", "stats">>,            \* 19  crawler.rs:302
       <<"lock", "pages">>,              \* 20  crawler.rs:305
       <<"unlock", "pages">>,            \* 21  crawler.rs:305
       <<"lock", "graph">>,              \* 22  crawler.rs:306
       <<"unlock", "graph">>,            \* 23  crawler.rs:306
       <<"lock", "stats">>,              \* 24  crawler.rs:307
       <<"unlock", "stats">>,            \* 25  crawler.rs:307
       <<"lock", "visited">>,            \* 26  crawler.rs:509
       <<"lock", "graph">>,              \* 27  crawler.rs:510
       <<"lock", "stats">>,              \* 28  crawler.rs:511
       <<"unlock", "stats">>,            \* 29  crawler.rs:548
       <<"unlock", "graph">>,            \* 30  crawler.rs:548
       <<"unlock", "visited">>,          \* 31  crawler.rs:548
       <<"end", "task">> >>              \* 32  crawler.rs:313

ProgramOf(t) == IF t = CrawlTask THEN CrawlProgram ELSE WorkerProgram

\* the operation the task stands at
OpOf(t) == ProgramOf(t)[lpc[t]]

\* the tasks whose guard keeps the lock from a task that asks for it in
\* the mode: a Mutex guard or a write guard keeps it from everyone, a read
\* guard from a writer
Holders(mode, lock) ==
    {u \in LockTasks :
        \E g \in held[u] :
            g[2] = lock /\ (mode # "read" \/ g[1] # "read")}

IsAcquire(op) == op[1] \in {"lock", "read", "write"}

\* the task is suspended in lock(), read() or write()
LockBlocked(t) == IsAcquire(OpOf(t)) /\ Holders(OpOf(t)[1], OpOf(t)[2]) # {}

RECURSIVE After(_, _)
\* the operations the program can stand at next when control reaches
\* place k: the conditions of the code decide at a branch
After(program, k) ==
    CASE program[k][1] = "branch" ->
            After(program, k + 1) \cup After(program, program[k][2])
      [] program[k][1] = "goto" -> After(program, program[k][2])
      [] OTHER -> {k}

\* the task goes on to its next operation
Advance(t) ==
    \E k \in After(ProgramOf(t), lpc[t] + 1) : lpc' = [lpc EXCEPT ![t] = k]

\* lock().await, read().await, write().await
LockAcquire(t) ==
    /\ IsAcquire(OpOf(t))
    /\ ~LockBlocked(t)
    /\ held' = [held EXCEPT ![t] = @ \cup {OpOf(t)}]
    /\ Advance(t)
    /\ UNCHANGED <<input, output, crawl_vars>>

\* the guard goes out of scope
LockRelease(t) ==
    /\ OpOf(t)[1] = "unlock"
    /\ held' = [held EXCEPT ![t] = {g \in @ : g[2] # OpOf(t)[2]}]
    /\ Advance(t)
    /\ UNCHANGED <<input, output, crawl_vars>>

\* an await that is not a lock: a request, a sleep, a send, a receive, the
\* semaphore, the join of the handles
LockYield(t) ==
    /\ OpOf(t)[1] = "io"
    /\ Advance(t)
    /\ UNCHANGED <<held, input, output, crawl_vars>>

NextLocks ==
    \E t \in LockTasks :
        \/ LockAcquire(t)
        \/ LockRelease(t)
        \/ LockYield(t)

\* crawl with as many worker tasks as there are permits, each of which
\* may start at any time
InitLocks ==
    /\ InitCrawl({"down"},
                 ConfigsWith({DefaultDepth}, {MaxTasks}, {PollTimeout},
                             {FALSE}))
    /\ config.max_urls_per_domain = None
    /\ config.max_total_urls = None
    /\ seed = <<HTTP, "t">>
    /\ input = NoCall
    /\ output = <<>>
    /\ lpc = [t \in LockTasks |-> 1]
    /\ held = [t \in LockTasks |-> {}]

LockSpec == InitLocks /\ [][NextLocks]_vars

---------------------------------------------------------------------------
(* Properties                                                              *)

Workers == 1..Len(workers)

PageUrls == {pages[i].url : i \in 1..Len(pages)}

WorkerUrls == {workers[w].url : w \in Workers}

InLoop == dpc \in {"select", "admit"}

\* C1: at-most-once visit.  Every URL in visited was added by exactly one
\* insert, was sent to the channel at most once and was handed to at most
\* one worker; the URLs of the committed pages are pairwise distinct and
\* every Graph key was written exactly once.
AtMostOnceVisit ==
    /\ DOMAIN admitted = visited
    /\ \A u \in visited : admitted[u] = 1
    /\ \A u \in DOMAIN sent : sent[u] <= 1
    /\ \A v, w \in Workers : workers[v].url = workers[w].url => v = w
    /\ \A i, j \in 1..Len(pages) : pages[i].url = pages[j].url => i = j
    /\ DOMAIN graph_writes = DOMAIN graph
    /\ \A u \in DOMAIN graph : graph_writes[u] = 1

\* a link that two workers came across was queued and committed once
AtMostOnceVisitWitness ==
    /\ \E v, w \in Workers :
          /\ v # w
          /\ workers[v].pc = "done" /\ workers[w].pc = "done"
          /\ \E u \in DOMAIN sent :
                /\ workers[v].url \in DOMAIN graph
                /\ workers[w].url \in DOMAIN graph
                /\ \E i \in 1..Len(graph[workers[v].url]) :
                      graph[workers[v].url][i] = u
                /\ \E i \in 1..Len(graph[workers[w].url]) :
                      graph[workers[w].url][i] = u
    /\ \E u \in DOMAIN graph : \E i, j \in 1..Len(graph[u]) :
          i # j /\ graph[u][i] = graph[u][j] /\ graph[u][i] \in PageUrls

\* C2: concurrency bound.  The tasks that are inside process_page or are
\* committing and enqueuing its result each hold a permit, and there are
\* never more of them than concurrent_tasks.
ConcurrencyBound ==
    /\ Cardinality({w \in Workers : HoldsPermit(w)}) <= config.concurrent_tasks
    /\ permits >= 0

\* every permit is held while another task waits for one
ConcurrencyBoundWitness ==
    /\ config.concurrent_tasks = 2
    /\ Cardinality({w \in Workers : workers[w].pc = "fetch"}) = 2
    /\ \E w \in Workers : workers[w].pc = "acquire"

\* C3: termination.  Under fair scheduling the dispatch loop exits and
\* crawl returns its CrawlResult, with max_total_urls set or not.
Termination == <>(dpc = "done" /\ result.returned)

\* crawl returned from the idle break after several workers ran, with no
\* total limit configured
TerminationWitness ==
    /\ dpc = "done"
    /\ result.returned
    /\ exit_reason = "idle"
    /\ config.max_total_urls = None
    /\ Len(workers) >= 3

\* C4: global deadline.  Once crawl_timeout has elapsed since crawl
\* started, the dispatch loop has exited (stated for a crawl_timeout longer
\* than the poll interval, where no tie of the two timers is involved).
DeadlineExits ==
    (config.crawl_timeout > PollTimeout /\ now > config.crawl_timeout)
        => ~InLoop

\* C5: termination causes.  The idle break is taken only when every spawned
\* worker has finished and nothing is queued, so no queued Page is lost by
\* it; the cap break only when visited has reached max_total_urls; and the
\* loop is left by one of the three breaks only.
TerminationCauses ==
    /\ ~InLoop <=> exit_reason \in {"idle", "deadline", "cap"}
    /\ exit_reason = "idle" =>
          /\ \A w \in Workers : workers[w].pc = "done"
          /\ channel = <<>>
          /\ \A u \in DOMAIN sent :
                \/ u \in discarded \cup WorkerUrls
                \/ config.max_urls_per_domain # None
    /\ exit_reason = "cap" =>
          \E max_total \in config.max_total_urls :
              Cardinality(visited) >= max_total

\* the idle break after workers ran and sent Pages
TerminationCausesWitness ==
    /\ exit_reason = "idle"
    /\ Len(workers) >= 3
    /\ discarded # {}

\* a task waits in send for room in the channel
SendBlocked(w) == workers[w].pc = "send" /\ ~closed /\ ~CanSend

\* the dispatch loop runs and task w waits in send
WaitsInSend(w) == InLoop /\ w \in Workers /\ workers[w].pc = "send"

\* C6: no deadlock on the full channel.  Whenever the dispatch loop runs and
\* a task waits in send on the full channel, the dispatch loop has a step to
\* take (it waits for no permit and for no lock of a waiting task); and no
\* task waits in send for ever while the loop runs.
NoFrontierDeadlock ==
    /\ []((InLoop /\ \E w \in Workers : SendBlocked(w)) => ENABLED Dispatcher)
    /\ \A w \in 1..MaxWorkers : []<>~WaitsInSend(w)

\* every permit holder waits in send on the full channel
NoFrontierDeadlockWitness ==
    /\ InLoop
    /\ permits = 0
    /\ config.concurrent_tasks = 2
    /\ \A w \in Workers : HoldsPermit(w) => SendBlocked(w)
    /\ dpc = "admit"

\* C7: depth bound with leaf skip.  Every committed Page has a depth below
\* max_depth; a Page dequeued at max_depth or deeper gets no worker, hence
\* no robots lookup and no fetch, no Page record and no Graph key, and its
\* URL stays in visited; with max_depth = 0 no Page is ever committed.
DepthBound ==
    /\ \A i \in 1..Len(pages) : pages[i].depth < config.max_depth
    /\ \A w \in Workers : workers[w].depth < config.max_depth
    /\ \A u \in discarded :
          /\ u \in visited
          /\ u \notin WorkerUrls
          /\ u \notin PageUrls
          /\ u \notin DOMAIN graph
    /\ config.max_depth = 0 =>
          /\ workers = <<>> /\ pages = <<>>
          /\ result.returned => result.pages = <<>>

\* a leaf was discarded in a crawl that committed its parent
DepthBoundWitness ==
    /\ discarded # {}
    /\ \E i \in 1..Len(pages) : pages[i].depth = config.max_depth - 1
    /\ result.returned

\* C8: total cap on pages.  With max_total_urls = T, no more than T pages
\* are ever committed, also by workers that outlive the dispatch loop.
TotalCapPages ==
    \A max_total \in config.max_total_urls : Len(pages) <= max_total

\* a page committed after the cap break and after the result was taken
TotalCapPagesWitness ==
    /\ exit_reason = "cap"
    /\ result.returned
    /\ Len(result.pages) < Len(pages)

\* the hosts of the URLs seen so far
Hosts == {extract_domain(u) : u \in visited}

PagesOfHost(h) == {i \in 1..Len(pages) : extract_domain(pages[i].url) = h}

\* C9: domain cap on pages.  With max_urls_per_domain = M, no host has more
\* than M committed pages, and no per-host counter exceeds M.
DomainCapPages ==
    \A max_per_domain \in config.max_urls_per_domain : \A h \in Hosts :
        /\ Cardinality(PagesOfHost(h)) <= max_per_domain
        /\ BagCount(domain_counters, h) <= max_per_domain

\* a Page of a host at its limit was turned away, one of another host taken
DomainCapPagesWitness ==
    /\ config.max_urls_per_domain = Some(1)
    /\ exit_reason = "idle"
    /\ \E u \in DOMAIN sent :
          /\ u \notin discarded \cup WorkerUrls
          /\ Cardinality(PagesOfHost(extract_domain(u))) = 1
    /\ Cardinality({h \in Hosts : PagesOfHost(h) # {}}) = 2

\* C10: total cap on visited.  With max_total_urls set, visited never holds
\* more URLs than max_total_urls.
VisitedTotalCap ==
    \A max_total \in config.max_total_urls : Cardinality(visited) <= max_total

\* the URLs of host h in visited
VisitedOfHost(h) == {u \in visited : extract_domain(u) = h}

\* the URLs of host h handed to a worker
SpawnedOfHost(h) == {u \in WorkerUrls : extract_domain(u) = h}

\* C11 as claimed: with max_urls_per_domain = M, visited holds at most M
\* URLs of any host.
VisitedDomainCap ==
    \A max_per_domain \in config.max_urls_per_domain : \A h \in Hosts :
        Cardinality(VisitedOfHost(h)) <= max_per_domain

\* C11 as amended: with max_urls_per_domain = M, of the URLs of a host in
\* visited at most M are handed to a worker, and the per-host counter
\* counts at least those; visited itself is not limited per host.
SpawnedDomainCap ==
    \A max_per_domain \in config.max_urls_per_domain : \A h \in Hosts :
        /\ Cardinality(SpawnedOfHost(h)) <= max_per_domain
        /\ Cardinality(SpawnedOfHost(h)) <= BagCount(domain_counters, h)
        /\ SpawnedOfHost(h) \subseteq VisitedOfHost(h)

\* visited holds more URLs of a host than the limit, of which only as
\* many as the limit got a worker
SpawnedDomainCapWitness ==
    \E max_per_domain \in config.max_urls_per_domain : \E h \in Hosts :
        /\ Cardinality(VisitedOfHost(h)) > max_per_domain
        /\ Cardinality(SpawnedOfHost(h)) = max_per_domain
        /\ \E u \in VisitedOfHost(h) \ WorkerUrls : u \in DOMAIN sent
        /\ exit_reason = "idle"

\* the URLs of the value lists of a Graph
GraphValues(g) == UNION {{g[u][i] : i \in 1..Len(g[u])} : u \in DOMAIN g}

\* C12 as claimed: in every state, and in the CrawlResult returned, every
\* Graph key and every URL of a Graph value list is in visited.
GraphClosure ==
    /\ DOMAIN graph \subseteq visited
    /\ GraphValues(graph) \subseteq visited
    /\ result.returned =>
          /\ DOMAIN result.graph \subseteq visited
          /\ GraphValues(result.graph) \subseteq visited

\* C12 as amended: every Graph key is in visited in every state; the URLs
\* of the value list are in visited once the worker that wrote it has run
\* its link loop to the end with the channel open, hence in the CrawlResult
\* of a crawl that left the loop by the idle break.
GraphClosureWhenDone ==
    /\ DOMAIN graph \subseteq visited
    /\ \A w \in Workers :
          (workers[w].pc = "done" /\ ~closed /\ workers[w].url \in DOMAIN graph)
              => \A i \in 1..Len(graph[workers[w].url]) :
                     graph[workers[w].url][i] \in visited
    /\ (result.returned /\ exit_reason = "idle") =>
          /\ DOMAIN result.graph \subseteq visited
          /\ GraphValues(result.graph) \subseteq visited

\* an idle crawl returned a Graph with links, some of them never crawled
GraphClosureWhenDoneWitness ==
    /\ result.returned
    /\ exit_reason = "idle"
    /\ Cardinality(DOMAIN result.graph) >= 2
    /\ GraphValues(result.graph) \ WorkerUrls # {}

\* a URL string that normalization leaves as it is
Canonical(u) == normalize_url(ParseUrl(u)) = u

\* C13: canonical URLs everywhere.  Every URL in visited, every page URL
\* and every Graph key and value is the output of normalize_url, the seed
\* included.  Stated for the states that hold a committed page, where the
\* seed page and its Graph key are stored as well as the visited entry.
CanonicalUrls ==
    pages # <<>> =>
        \A u \in visited \cup PageUrls \cup DOMAIN graph
                  \cup GraphValues(graph) :
            Canonical(u)

\* the outcomes of process_page that return a Page without links
NoLinkOutcomes == {"Disallowed", "HttpError", "NonHtml"}

\* the worker of a URL
WorkerOf(u) == CHOOSE w \in Workers : workers[w].url = u

\* the task is past graph.insert of the Ok arm
PastInsert(w) ==
    /\ workers[w].pc \in {"success", "links", "send", "done"}
    /\ workers[w].outcome # "TransportError"

PastCount(w) == workers[w].pc \in {"links", "send", "done"}

\* the Page records committed for a URL
PagesOf(u) == {i \in 1..Len(pages) : pages[i].url = u}

\* C15: per-page outcome.  Every dispatched page ends in one outcome; a
\* transport error commits no Page and bumps error_count alone; Ok,
\* Disallowed, HttpError and NonHtml commit one Page each and leave
\* error_count alone.
PerPageOutcome ==
    /\ \A w \in Workers :
          /\ PastCount(w) => workers[w].outcome # "none"
          /\ workers[w].outcome = "TransportError"
                => PagesOf(workers[w].url) = {}
          /\ (PastCount(w) /\ workers[w].outcome # "TransportError")
                => Cardinality(PagesOf(workers[w].url)) = 1
          /\ Cardinality(PagesOf(workers[w].url)) <= 1
    /\ stats.error_count =
          Cardinality({w \in Workers :
              PastCount(w) /\ workers[w].outcome = "TransportError"})
    /\ stats.success_count =
          Cardinality({w \in Workers :
              PastCount(w) /\ workers[w].outcome # "TransportError"})

\* a crawl that ended with a failed fetch, HTML pages and a non-HTML page
PerPageOutcomeWitness ==
    /\ result.returned
    /\ \A w \in Workers : workers[w].pc = "done"
    /\ stats.error_count = 1
    /\ Len(pages) = 3
    /\ {workers[w].outcome : w \in Workers} =
          {"Ok", "NonHtml", "TransportError"}

\* the workers whose page was fetched with a 2xx status
FetchedOk == {w \in Workers : workers[w].outcome \in {"Ok", "NonHtml"}}

\* C16: success accounting.  success_count counts only pages that were
\* fetched successfully; the crawl of the web "s1" (an HTML seed with one
\* link to a child that answers 404) at max_depth 2 returns 2 pages,
\* success_count = 1 and error_count = 0.
SuccessAccounting ==
    /\ stats.success_count <= Cardinality(FetchedOk)
    /\ (/\ web = "s1"
        /\ config.max_depth = 2
        /\ config.max_total_urls = None
        /\ config.max_urls_per_domain = None
        /\ result.returned
        /\ exit_reason = "idle")
          => /\ Len(result.pages) = 2
             /\ result.stats.success_count = 1
             /\ result.stats.error_count = 0

\* what the robots.txt served for the origin of a URL says about its path
DisallowedByRobots(u) ==
    ~check_path_allowed(
        FetchedRobots(RobotsTxt(web, OriginOf(u)), BOT), PathOf(u))

\* the task is past pages.push of the Ok arm
PastPush(w) ==
    /\ workers[w].pc \in {"insert_graph", "success", "links", "send", "done"}
    /\ workers[w].outcome # "TransportError"

\* the task is past the HTTP request of process_page
PastFetch(w) ==
    workers[w].pc \notin {"acquire", "robots", "robots_fetch", "fetch"}

\* C17: robots disallow.  With respect_robots_txt on, a page whose path is
\* disallowed is never requested; one Page with status 403 and no links is
\* committed for it and it enqueues no child; the allowed pages of the
\* same origin are requested and end as the response says.
RobotsDisallow ==
    config.respect_robots_txt => \A w \in Workers :
        IF DisallowedByRobots(workers[w].url)
        THEN /\ workers[w].requests = 0
             /\ workers[w].links = <<>>
             /\ workers[w].pc # "send"
             /\ PastFetch(w) => workers[w].outcome = "Disallowed"
             /\ PastPush(w) => \E i \in 1..Len(pages) :
                   /\ PagesOf(workers[w].url) = {i}
                   /\ pages[i].status_code = 403
                   /\ pages[i].links = <<>>
        ELSE PastFetch(w) =>
                /\ workers[w].requests = 1
                /\ workers[w].outcome =
                      AfterResponse(workers[w],
                          Site(web, RequestOf(workers[w].url))).outcome

\* a disallowed page got its 403 Page and pages of the same origin were
\* fetched
RobotsDisallowWitness ==
    /\ config.respect_robots_txt
    /\ \E v, w \in Workers :
          /\ OriginOf(workers[v].url) = OriginOf(workers[w].url)
          /\ workers[v].pc = "done" /\ workers[w].pc = "done"
          /\ workers[v].outcome = "Disallowed"
          /\ workers[w].outcome = "Ok" /\ workers[w].depth > 0
    /\ \E i \in 1..Len(pages) : pages[i].status_code = 403

\* C18: the robots cache is write-once per origin.  Under any interleaving
\* of the is_allowed calls for URLs of one origin, robots.txt is fetched at
\* most once for the origin and its record is inserted once.
RobotsWriteOnce ==
    /\ DOMAIN robots_fetches = DOMAIN robots_cache
    /\ \A domain \in DOMAIN robots_cache : robots_fetches[domain] <= 1

\* the task is past should_crawl_url
PastRobots(w) == workers[w].pc \notin {"acquire", "robots", "robots_fetch"}

\* the paths of the URLs seen so far
SeenPaths == {PathOf(u) : u \in visited}

\* the robots.txt of the origin cannot be had
RobotsFails(domain) == RobotsTxt(web, domain).kind # "ok"

\* C19: a failed robots.txt fetch is permissive.  When the request fails,
\* the status is not 2xx or the body cannot be read, the record cached for
\* the origin has no allow and no disallow prefix and no crawl-delay,
\* every path of the origin is allowed and the page is requested.
RobotsFailurePermissive ==
    /\ \A domain \in DOMAIN robots_cache : RobotsFails(domain) =>
          /\ robots_cache[domain] = RobotsData(<<>>, <<>>, None)
          /\ \A path \in SeenPaths :
                check_path_allowed(robots_cache[domain], path)
    /\ \A w \in Workers :
          (config.respect_robots_txt /\ RobotsFails(OriginOf(workers[w].url)))
              => /\ PastRobots(w) =>
                      /\ OriginOf(workers[w].url) \in DOMAIN robots_cache
                      /\ workers[w].outcome # "Disallowed"
                 /\ PastFetch(w) => workers[w].requests = 1

\* the seed of an origin whose robots.txt could not be read was fetched and
\* its links were followed
RobotsFailurePermissiveWitness ==
    /\ \E domain \in DOMAIN robots_cache :
          /\ RobotsTxt(web, domain).kind = "body_error"
          /\ \E w \in Workers :
                /\ OriginOf(workers[w].url) = domain
                /\ workers[w].outcome = "Ok"
                /\ workers[w].pc = "done"
    /\ Len(workers) >= 2

\* C20: robots group selection.  When robots.txt has a group for the
\* crawler's user agent and a group for "*", the rules of the group of
\* the user agent alone decide; the group of "*" decides only when no
\* group names the user agent.
RobotsGroupSelection ==
    config.respect_robots_txt => \A w \in Workers :
        LET file == RobotsTxt(web, OriginOf(workers[w].url))
            lines == file.lines
            AgentAt(i) ==
                LET before == {j \in 1..(i - 1) : lines[j][1] = "user-agent"}
                IN  IF before = {} THEN ""
                    ELSE lines[CHOOSE j \in before :
                                  \A k \in before : k <= j][2]
            group ==
                IF \E i \in 1..Len(lines) : lines[i] = <<"user-agent", BOT>>
                THEN BOT ELSE "*"
            Rules(key) ==
                {lines[i][2] : i \in {j \in 1..Len(lines) :
                    lines[j][1] = key /\ AgentAt(j) = group}}
            path == PathOf(workers[w].url)
            barred ==
                \E d \in Rules("disallow") :
                    /\ StartsWith(path, d)
                    /\ ~\E a \in Rules("allow") :
                          StartsWith(path, a) /\ Len(a) > Len(d)
        IN  (file.kind = "ok" /\ PastRobots(w))
                => (workers[w].outcome = "Disallowed" <=> barred)

\* the longest of the patterns that are prefixes of path, 0 when none is
LongestMatch(patterns, path) ==
    LET lens == {Len(patterns[i]) : i \in {j \in 1..Len(patterns) :
                                             StartsWith(path, patterns[j])}}
    IN  IF lens = {} THEN 0 ELSE CHOOSE n \in lens : \A m \in lens : m <= n

\* C21: the robots path match is longest-prefix.  check_path_allowed
\* returns false exactly when some disallow pattern is a prefix of the path
\* and no allow pattern that is a prefix of the path is strictly longer
\* than the longest such disallow pattern; hence the order in which the
\* disallow patterns are listed does not matter.
LongestPrefixMatch ==
    (input.fn = "check_path_allowed" /\ output # <<>>) =>
        LET data == input.robots_data
            disallowed == LongestMatch(data.disallow_patterns, input.path)
            allowed == LongestMatch(data.allow_patterns, input.path)
        IN  output[1] = ~(disallowed > 0 /\ ~(allowed > disallowed))

\* C25: normalization is idempotent.  For every http URL, also one whose
\* path ends in several slashes or whose query ends in a slash, normalizing
\* the parsed result of normalize_url gives that result again.
NormalizeIdempotent ==
    (input.fn = "normalize_url" /\ Len(output) = 2) => output[2] = output[1]

\* the seed's worker: the first task spawned
SeedWorker == 1

\* the URLs sent to the channel by workers
ChildrenSent == DOMAIN sent \ {seed}

\* C22 as claimed: dedup on canonicalization (S4).  The links
\* http://T/A#frag, http://t/a/ and http://t/a of one page normalize to the
\* same canonical URL, and exactly one child Page is enqueued for them.
DedupSingleChild ==
    web = "s4" =>
        /\ \A i \in 1..Len(pages) : \A j, k \in 1..Len(pages[i].links) :
              pages[i].links[j] = pages[i].links[k]
        /\ (SeedWorker \in Workers /\ workers[SeedWorker].pc = "done")
              => Cardinality(ChildrenSent) = 1

\* C22 as amended: the host is lowercased, the fragment and one trailing
\* slash are dropped and the case of the path is kept, so the three links
\* normalize to http://t/A, http://t/a and http://t/a: the two links that
\* differ only in the trailing slash are one canonical URL, and exactly one
\* child Page is enqueued per canonical URL, two in all.
DedupPerCanonicalUrl ==
    web = "s4" =>
        /\ \A i \in 1..Len(pages) :
              pages[i].url = seed =>
                  pages[i].links = << <<HTTP, "t", "/", "A">>,
                                      <<HTTP, "t", "/", "a">>,
                                      <<HTTP, "t", "/", "a">> >>
        /\ ChildrenSent \subseteq
              {<<HTTP, "t", "/", "A">>, <<HTTP, "t", "/", "a">>}
        /\ \A u \in ChildrenSent : sent[u] = 1
        /\ (SeedWorker \in Workers /\ workers[SeedWorker].pc = "done")
              => Cardinality(ChildrenSent) = 2

\* the crawl of "s4" returned the seed's page and the pages of two children
DedupPerCanonicalUrlWitness ==
    /\ web = "s4"
    /\ result.returned
    /\ exit_reason = "idle"
    /\ Len(result.pages) = 3
    /\ Cardinality(ChildrenSent) = 2

\* the URL strings that request the seed's page
IsSeedPage(u) == RequestOf(u) = RequestOf(seed)

\* the Graph has an edge from a key that requests `from` to a link that
\* requests `to`
HasEdge(g, from, to) ==
    \E k \in DOMAIN g :
        /\ RequestOf(k) = from
        /\ \E i \in 1..Len(g[k]) : RequestOf(g[k][i]) = to

HostAllowed(link) ==
    \/ config.allowed_domains = <<>>
    \/ \E i \in 1..Len(config.allowed_domains) :
          SeqContains(<<HostStr(ParseUrl(link))>>, config.allowed_domains[i])

\* the link contains an excluded_paths entry
PathExcluded(link) ==
    \E i \in 1..Len(config.excluded_paths) :
        SeqContains(link, config.excluded_paths[i])

\* a link that the filters turn away
Rejected(link) == ~HostAllowed(link) \/ PathExcluded(link)

\* the Pages in the channel
Queued == {channel[i].url : i \in 1..Len(channel)}

\* the URL was sent to the Frontier, was fetched or has a Page record
Crawled(u) ==
    \/ u \in DOMAIN sent \cup Queued
    \/ u \in WorkerUrls
    \/ u \in PageUrls \cup DOMAIN graph

\* C24 as claimed: link filters.  A discovered link whose host contains
\* none of the allowed_domains entries (the list not being empty), or that
\* contains an excluded_paths substring, is never sent to the Frontier,
\* never fetched and never gets a Page record.
RejectedLinksNeverCrawled ==
    \A u \in GraphValues(graph) : Rejected(u) => ~Crawled(u)

\* C24 as amended: the same for every discovered link other than the
\* seed's own URL, which crawl enqueues before any filter is applied: a
\* page that links back to a seed the filters would turn away names a URL
\* that was sent, fetched and recorded.
RejectedNonSeedLinksNeverCrawled ==
    \A u \in GraphValues(graph) \ {seed} : Rejected(u) => ~Crawled(u)

\* a crawl with both filters set ended idle: links of the other host and
\* of the excluded path were found on committed pages and turned away,
\* and an allowed link was crawled
RejectedNonSeedLinksNeverCrawledWitness ==
    /\ config.allowed_domains # <<>>
    /\ config.excluded_paths # <<>>
    /\ result.returned
    /\ exit_reason = "idle"
    /\ \E u, v \in GraphValues(graph) \ {seed} :
          /\ ~HostAllowed(u)
          /\ PathExcluded(v) /\ HostAllowed(v)
    /\ \E u \in ChildrenSent : u \in PageUrls

\* C30: visited holds only frontier admissions.  Every URL in visited is
\* the seed or a link that the worker which inserted it sends to the
\* Frontier; a link turned away by allowed_domains or excluded_paths is
\* not inserted into visited and so does not count toward max_total_urls.
VisitedOnlyAdmissions ==
    \A u \in visited \ {seed} :
        /\ ~Rejected(u)
        /\ \/ u \in DOMAIN sent
           \/ \E w \in Workers :
                 workers[w].pc = "send" /\ workers[w].link = u

\* C27: after a successful fetch of an HTML page from an origin whose cached
\* robots record has a crawl-delay of D seconds, the worker has slept the
\* larger of D and config.delay_between_requests before it commits the
\* page, and config.delay_between_requests when the record has none
PoliteDelay ==
    \A w \in DOMAIN workers :
        (/\ workers[w].pc = "push_page"
         /\ workers[w].outcome = "Ok"
         /\ OriginOf(workers[w].url) \in DOMAIN robots_cache) =>
            LET record == robots_cache[OriginOf(workers[w].url)]
                configured == config.delay_between_requests
            IN  workers[w].delay =
                    IF record.crawl_delay = None
                    THEN configured
                    ELSE LET D == 10 * (CHOOSE d \in record.crawl_delay : TRUE)
                         IN  IF D > configured THEN D ELSE configured

\* process_page returned Err to the worker: the request or the body read
\* failed
Failed(w) == workers[w].outcome = "TransportError"

\* the check of robots.txt failed for the worker's URL, and should_crawl_url
\* went on
RobotsFailed(w) ==
    /\ config.respect_robots_txt
    /\ workers[w].pc \notin {"acquire", "robots", "robots_fetch"}
    /\ RobotsTxt(web, OriginOf(workers[w].url)).kind \in
          {"error", "body_error"}

\* the task waits for a permit or for room in the channel
Waiting(w) ==
    \/ workers[w].pc = "acquire" /\ ~CanAcquire
    \/ SendBlocked(w)

\* C26: error containment.  Once the processing of a page has failed
\* (transport error, robots error), the dispatch loop still has a step to
\* take, every other unfinished worker still has a step to take unless it
\* waits for a permit or for room in the channel, the loop is left only
\* for idleness, the cap or the deadline, and crawl then returns the
\* result with the pages, graph and counters gathered so far.
ErrorContainment ==
    (\E w \in Workers : Failed(w) \/ RobotsFailed(w)) =>
        /\ InLoop => ENABLED (Dispatcher \/ Tick)
        /\ \A v \in Workers :
              workers[v].pc # "done" => (ENABLED WorkerStep(v) \/ Waiting(v))
        /\ ~InLoop =>
              /\ exit_reason \in {"idle", "cap", "deadline"}
              /\ dpc # "done" => ENABLED Dispatcher
        /\ dpc = "done" =>
              /\ result.returned
              /\ StartsWith(pages, result.pages)
              /\ DOMAIN result.graph \subseteq DOMAIN graph
              /\ result.stats.success_count <= stats.success_count
              /\ result.stats.error_count <= stats.error_count

\* crawl returned at the global deadline with a page and a counted error
ErrorContainmentWitness ==
    /\ result.returned
    /\ exit_reason = "deadline"
    /\ result.stats.error_count >= 1
    /\ Len(result.pages) >= 1
    /\ \E w \in Workers : Failed(w) /\ workers[w].pc = "done"
    /\ \E w \in Workers : RobotsFailed(w)

\* C28: the soft cap drains.  When the dispatch loop has stopped because
\* visited reached max_total_urls, every worker spawned before the stop
\* runs to completion, also one that is in the middle of sending children
\* to a full channel: no such worker is left at its send with the channel
\* full and the receiver gone, a send that can only fail and drop the
\* children that remain.
SoftCapDrains ==
    exit_reason = "cap" =>
        \A w \in Workers :
            (workers[w].pc = "send" /\ ~CanSend) => ~closed

\* the tasks spawned and not finished
Unfinished == {w \in Workers : workers[w].pc # "done"}

\* C29 as claimed: bounded worker pool.  The dispatcher acquires a permit
\* before it spawns the task, so the number of spawned and unfinished
\* worker tasks is at most concurrent_tasks in every reachable state.
BoundedWorkerPool == Cardinality(Unfinished) <= config.concurrent_tasks

\* C29 as amended: the dispatcher spawns the task without a permit and the
\* task acquires one as its first step, suspending while all are held.
\* The dispatcher with an admitted page below the cap can always spawn,
\* an unfinished task either waits in acquire or holds a permit, and the
\* tasks beyond concurrent_tasks are the ones waiting in acquire.
SpawnBeforePermit ==
    LET waiting == {w \in Unfinished : workers[w].pc = "acquire"}
        below_cap == \A max_total \in config.max_total_urls :
                        Cardinality(visited) < max_total
    IN  /\ (dpc = "admit" /\ below_cap) => ENABLED DispatchSpawn
        /\ \A w \in Workers : workers[w].pc = "acquire" =>
              workers[w].requests = 0 /\ workers[w].outcome = "none"
        /\ Cardinality(Unfinished \ waiting) + permits =
              config.concurrent_tasks
        /\ Cardinality(Unfinished) <=
              config.concurrent_tasks + Cardinality(waiting)

\* the dispatcher is about to spawn a task while all permits are held and
\* the unfinished tasks already outnumber concurrent_tasks
SpawnBeforePermitWitness ==
    /\ dpc = "admit"
    /\ permits = 0
    /\ Cardinality(Unfinished) > config.concurrent_tasks
    /\ \A max_total \in config.max_total_urls :
          Cardinality(visited) < max_total

\* the tasks of S wait for one another: each is suspended on a lock that a
\* task of S holds
WaitCycle(S) ==
    \A t \in S : LockBlocked(t) /\ Holders(OpOf(t)[1], OpOf(t)[2]) \cap S # {}

\* C31: lock discipline.  No set of tasks waits for locks in a cycle; a
\* worker task holds at most one lock at a time, and the crawl future,
\* which holds visited, graph and stats together in print_statistics,
\* takes them while no task that holds one of them waits for another; and
\* no task holds a lock at an HTTP request, a robots fetch, a polite
\* sleep, a channel send or any other await that is not a lock.
LockDiscipline ==
    lpc # <<>> =>
        /\ \A S \in SUBSET LockTasks : S # {} => ~WaitCycle(S)
        /\ \A t \in LockTasks \ {CrawlTask} : Cardinality(held[t]) <= 1
        /\ \A t, u \in LockTasks :
              (Cardinality(held[t]) >= 2 /\ u # t /\ held[u] # {})
                  => ~LockBlocked(u)
        /\ \A t \in LockTasks : OpOf(t)[1] = "io" => held[t] = {}

\* print_statistics holds visited and graph and waits for stats, which a
\* worker holds, while another worker waits for visited
LockDisciplineWitness ==
    /\ lpc # <<>>
    /\ Cardinality(held[CrawlTask]) = 2
    /\ LockBlocked(CrawlTask)
    /\ \E t, u \in LockTasks \ {CrawlTask} :
          /\ held[t] = {<<"lock", "stats">>}
          /\ LockBlocked(u)
          /\ OpOf(u)[2] = "visited"

\* the Page records in flight: in the channel, taken by the dispatcher,
\* and held by the worker tasks
PagesInFlight ==
    {channel[i] : i \in 1..Len(channel)}
    \cup (IF cur = NoPage THEN {} ELSE {cur})
    \cup {NewPage(workers[w].url, workers[w].depth) : w \in Workers}

\* the Page is the seed at depth 0, or a link of a committed page one
\* level below it
DepthFromParent(page) ==
    \/ page.url = seed /\ page.depth = 0
    \/ \E i \in 1..Len(pages) :
          /\ page.depth = pages[i].depth + 1
          /\ \E k \in 1..Len(pages[i].links) : pages[i].links[k] = page.url

\* C32: depth assignment.  The seed is enqueued at depth 0, every child
\* Page in flight has the depth of a committed page that links to it plus
\* one, a committed Page has the depth its worker received, and no step
\* changes the URL or the depth of a worker's Page or of a committed Page.
DepthAssignment ==
    /\ [](/\ \A page \in PagesInFlight : DepthFromParent(page)
          /\ \A i \in 1..Len(pages) :
                \E w \in Workers :
                    /\ workers[w].url = pages[i].url
                    /\ workers[w].depth = pages[i].depth)
    /\ [][/\ \A w \in Workers :
               /\ workers'[w].url = workers[w].url
               /\ workers'[w].depth = workers[w].depth
           /\ \A i \in 1..Len(pages) :
               /\ pages'[i].url = pages[i].url
               /\ pages'[i].depth = pages[i].depth]_vars

\* a Page of depth 2 waits in the channel while pages of depth 0 and 1
\* are committed and a worker at depth 1 is still running
DepthAssignmentWitness ==
    /\ \E i \in 1..Len(channel) : channel[i].depth = 2
    /\ \E i, j \in 1..Len(pages) : pages[i].depth = 0 /\ pages[j].depth = 1
    /\ \E w \in Workers : workers[w].depth = 1 /\ workers[w].pc # "done"

\* the channel is full and a worker stands at its send
SendFull(w) == workers[w].pc = "send" /\ ~CanSend

\* the channel changed by a receive at its front or a send at its back
FifoStep ==
    \/ channel # <<>> /\ channel' = Tail(channel)
    \/ \E w \in Workers :
          channel' = Append(channel,
                            NewPage(workers[w].link, workers[w].depth + 1))

ResultConsistent ==
    result.returned =>
        /\ DOMAIN result.graph =
              {result.pages[i].url : i \in 1..Len(result.pages)}
        /\ \A i \in 1..Len(result.pages) :
              /\ result.pages[i].url \in DOMAIN result.graph
              /\ result.graph[result.pages[i].url] = result.pages[i].links
        /\ result.stats.success_count = Len(result.pages)

\* the links of the page that the web serves for the URL
LinksOf(u) ==
    LET response == Site(web, RequestOf(u))
        links == IF response.kind = "html"
                 THEN extract_links(u, response.hrefs)
                 ELSE <<>>
    IN  {links[i] : i \in 1..Len(links)}

RECURSIVE Within(_)
\* the URLs at a link distance of at most k from the seed
Within(k) ==
    IF k = 0
    THEN {seed}
    ELSE Within(k - 1) \cup UNION {LinksOf(u) : u \in Within(k - 1)}

\* C35: breadth-wise completeness.  In a crawl without caps, filters,
\* robots denials or failures, every URL whose shortest link distance from
\* the seed is less than max_depth has been fetched and committed when the
\* crawl ends for want of work, whatever the order of the workers' steps.
BreadthComplete ==
    (/\ web = "s7"
     /\ result.returned
     /\ exit_reason = "idle") =>
        \A u \in Within(config.max_depth - 1) :
            \E i \in 1..Len(result.pages) :
                RequestOf(result.pages[i].url) = RequestOf(u)

\* the step appends to pages the one Page of a worker that process_page
\* has returned, with its status code and links set
CommitStep ==
    \E w \in Workers :
        /\ workers[w].pc = "push_page"
        /\ workers[w].status # 0
        /\ Len(pages') = Len(pages) + 1
        /\ SubSeq(pages', 1, Len(pages)) = pages
        /\ Last(pages') = [url |-> workers[w].url,
                           depth |-> workers[w].depth,
                           links |-> workers[w].links,
                           status_code |-> workers[w].status]

\* C36: the page store is append-only.  Every step that changes pages
\* appends exactly one fully populated Page to its end and leaves the
\* records before it as they were, and the pages of the result are the
\* pages committed when it was taken, in commit order.
PageStoreAppendOnly ==
    /\ [][pages' # pages => CommitStep]_vars
    /\ [](dpc \in {"clone_graph", "clone_stats", "done"} =>
              StartsWith(pages, result.pages))

\* the result lists three pages in the order of their commits, which is
\* not the order in which their workers were spawned
PageStoreAppendOnlyWitness ==
    /\ result.returned
    /\ Len(result.pages) = 3
    /\ result.pages = pages
    /\ \E v, w \in Workers :
          /\ v < w
          /\ workers[w].url = pages[2].url
          /\ workers[v].url = pages[3].url

\* the step ends the task of a worker that has no child left to enqueue
\* and gives its permit back
ReleaseStep ==
    /\ permits' = permits + 1
    /\ \E w \in Workers :
          /\ HoldsPermit(w)
          /\ workers[w].pc = "links"
          /\ workers[w].links = <<>>
          /\ workers'[w].pc = "done"

\* C37: permit conservation.  The available permits and the workers that
\* hold one add up to concurrent_tasks in every state, all permits are
\* available when no worker is running, a permit comes back only with the
\* end of a task that has finished enqueuing its children, and a task
\* ends only so, whether its page was committed, its request failed or
\* its send failed.
PermitConservation ==
    /\ [](/\ permits + Cardinality({w \in Workers : HoldsPermit(w)}) =
                config.concurrent_tasks
          /\ (\A w \in Workers : workers[w].pc = "done") =>
                permits = config.concurrent_tasks)
    /\ [][(\/ permits' > permits
            \/ \E w \in Workers :
                  workers[w].pc # "done" /\ workers'[w].pc = "done")
               => ReleaseStep]_vars

\* every task has ended and all permits are back after a crawl in which a
\* request failed, a page was committed, and a worker's send failed on
\* the closed channel, leaving a link of its page unsent
PermitConservationWitness ==
    /\ closed
    /\ Workers # {}
    /\ \A w \in Workers : workers[w].pc = "done"
    /\ permits = config.concurrent_tasks
    /\ \E w \in Workers : Failed(w)
    /\ \E i \in 1..Len(pages) : \E k \in 1..Len(pages[i].links) :
          /\ pages[i].links[k] \notin DOMAIN sent
          /\ ~Rejected(pages[i].links[k])
          /\ admitted[pages[i].links[k]] = 1

\* the step adds one to one of the two counters, for a worker that stands
\* at the end of the Ok arm's commit or in the Err arm
CountStep ==
    \E w \in Workers :
        \/ /\ workers[w].pc = "success"
           /\ workers'[w].pc # "success"
           /\ stats'.success_count = stats.success_count + 1
           /\ stats'.error_count = stats.error_count
        \/ /\ workers[w].pc = "error"
           /\ workers'[w].pc # "error"
           /\ stats'.error_count = stats.error_count + 1
           /\ stats'.success_count = stats.success_count

\* the worker has not reached the counters yet
BeforeCount(w) ==
    workers[w].pc \in {"acquire", "robots", "robots_fetch", "fetch", "sleep",
                       "push_page", "insert_graph", "success", "error"}

\* C38: counter accounting.  The counters change only by one, one of
\* them at a time, for a worker at its count; the two add up to the
\* workers that have passed their count, which a worker does before it
\* ends; and once every spawned worker has finished, success_count +
\* error_count is the number of workers spawned and success_count the
\* number of committed pages.
CounterAccounting ==
    /\ [][stats' # stats => CountStep]_vars
    /\ [](/\ stats.success_count + stats.error_count =
                Cardinality({w \in Workers : ~BeforeCount(w)})
          /\ (\A w \in Workers : workers[w].pc = "done") =>
                /\ stats.success_count + stats.error_count = Len(workers)
                /\ stats.success_count = Len(pages))

\* three workers have finished, two with a committed page and one with a
\* failed request
CounterAccountingWitness ==
    /\ Len(workers) = 3
    /\ \A w \in Workers : workers[w].pc = "done"
    /\ stats.success_count = 2
    /\ stats.error_count = 1

\* the step is a receive: the dispatcher takes the Page at the head of
\* the channel
ReceiveStep == dpc = "select" /\ channel # <<>> /\ channel' = Tail(channel)

\* the received Page is dropped: the loop goes on with the next receive
\* and no store changes but the per-host counters
DiscardStep ==
    /\ dpc' = "select"
    /\ cur' = cur
    /\ UNCHANGED <<visited, pages, graph, stats, workers, handles, permits>>

\* a URL that was received and turned away by the per-host limit: sent
\* and no longer queued, not dropped for its depth and never spawned
TurnedAway(u) ==
    /\ u \in DOMAIN sent
    /\ u \notin Queued \cup discarded \cup WorkerUrls
    /\ cur.url # u

====
